---- MODULE Spec2Model ----
(***************************************************************************)
(* A model of postui, a terminal HTTP client built on bubbletea.           *)
(*                                                                         *)
(* The model follows the richest variant of the sources: the event handler *)
(* of src/events/handler.go (first file of that path: overlays, three      *)
(* tabs) working on the AppModel of src/unnamed/part_002 (first file: the  *)
(* one with saved requests).                                               *)
(*                                                                         *)
(* Text is a sequence of one-character strings.  Go slices are modelled    *)
(* with their backing arrays: a slice is [arr, len] and the arrays live in *)
(* the heap field of the process state, because the handlers share backing *)
(* arrays between the draft, the saved requests and the requests in        *)
(* flight.                                                                 *)
(***************************************************************************)
EXTENDS Integers, Sequences, FiniteSets, TLC

\* ------------------------------------------------------------------ bounds

\* Number of characters the user types in one run (the widgets' own limits,
\* CharLimit 100 and 500, are out of reach of the model).
MaxTyped == 1

\* The same, for the specification that edits the headers and the params.
MaxEdit == 3

\* The same, for the specification that saves and loads requests.
MaxLoadTyped == 2

\* Number of requests that are dispatched and not yet folded in.
MaxInflight == 2

\* ------------------------------------------------------- program constants

TabRequest == 0
TabResponse == 1
TabSaved == 2
NumTabs == 3

SectionMethod == 0
SectionURL == 1
SectionHeaders == 2
SectionBody == 3
SectionParams == 4
NumSections == 5

MethodNames == <<"GET", "POST", "PUT", "DELETE", "PATCH", "HEAD", "OPTIONS">>

\* ------------------------------------------------------------------- text

\* msg.String() of a key that carries one rune is that rune.
Runes == {"a", "d", "h", "i", "j", "k", "l", "n", "q", "x", "y", "Y", "N", "=",
          "1", "2", "3", "4", "5"}

IsRune(k) == k \in Runes

\* strings.ToLower on the key names of the model.
ToLower(k) == IF k = "Y" THEN "y" ELSE IF k = "N" THEN "n" ELSE k

\* Position of the first "=" of s, 0 when there is none.
IndexEq(s) ==
  IF \E i \in 1..Len(s) : s[i] = "="
  THEN CHOOSE i \in 1..Len(s) : s[i] = "=" /\ \A j \in 1..(i - 1) : s[j] # "="
  ELSE 0

\* A cut at the last "=" instead of the first.
SplitNAtLast(s) ==
  LET ps == {i \in 1..Len(s) : s[i] = "="}
      p == IF ps = {} THEN 0 ELSE CHOOSE i \in ps : \A j \in ps : j <= i
  IN IF p = 0 THEN <<s>> ELSE <<SubSeq(s, 1, p - 1), SubSeq(s, p + 1, Len(s))>>

\* strings.SplitN(s, "=", 2): at most two parts, cut at the first "=".
SplitN(s) ==
  LET p == IndexEq(s)
  IN IF p = 0 THEN <<s>> ELSE <<SubSeq(s, 1, p - 1), SubSeq(s, p + 1, Len(s))>>

\* ---------------------------------------------------------------- widgets

\* textinput.Model / textarea.Model: the value and the focus flag.
NewInput == [value |-> <<>>, focus |-> FALSE]

Focus(w) == [w EXCEPT !.focus = TRUE]
Blur(w) == [w EXCEPT !.focus = FALSE]
SetValue(w, v) == [w EXCEPT !.value = v]

\* textinput.Update on a key: a blurred input ignores it; a rune is inserted,
\* backspace deletes the last rune, every other key leaves the value alone.
TextInputUpdate(w, k) ==
  IF ~w.focus THEN w
  ELSE IF IsRune(k) THEN [w EXCEPT !.value = Append(w.value, k)]
  ELSE IF k = "backspace" /\ Len(w.value) > 0
       THEN [w EXCEPT !.value = SubSeq(w.value, 1, Len(w.value) - 1)]
  ELSE w

\* textarea.Update on a key: as textinput, and enter inserts a line break.
TextAreaUpdate(w, k) ==
  IF ~w.focus THEN w
  ELSE IF k = "enter" THEN [w EXCEPT !.value = Append(w.value, "\n")]
  ELSE TextInputUpdate(w, k)

\* ----------------------------------------------------------------- slices

NilSlice == [arr |-> 0, len |-> 0]

ZeroPair == [Key |-> <<>>, Value |-> <<>>]

Cap(heap, s) == IF s.arr = 0 THEN 0 ELSE Len(heap[s.arr])

\* The elements a slice shows.
Elems(heap, s) == IF s.arr = 0 THEN <<>> ELSE SubSeq(heap[s.arr], 1, s.len)

\* First free array of the heap (an array nobody references is empty).
FreeArr(heap) ==
  IF \E i \in 1..Len(heap) : heap[i] = <<>>
  THEN CHOOSE i \in 1..Len(heap) : heap[i] = <<>> /\ \A j \in 1..(i - 1) : heap[j] # <<>>
  ELSE Len(heap) + 1

Store(heap, id, arr) ==
  IF id = Len(heap) + 1 THEN Append(heap, arr) ELSE [heap EXCEPT ![id] = arr]

\* runtime.growslice for one more element: 0 -> 1, else the capacity doubles.
GrowCap(c) == IF c = 0 THEN 1 ELSE 2 * c

\* Go's append(s, e): in place when the capacity allows, else into a new array.
GoAppend(heap, s, e) ==
  IF s.len < Cap(heap, s)
  THEN [heap |-> [heap EXCEPT ![s.arr][s.len + 1] = e],
        slice |-> [arr |-> s.arr, len |-> s.len + 1]]
  ELSE LET id == FreeArr(heap)
           nc == GrowCap(Cap(heap, s))
           arr == [i \in 1..nc |->
                     IF i <= s.len THEN heap[s.arr][i]
                     ELSE IF i = s.len + 1 THEN e ELSE ZeroPair]
       IN [heap |-> Store(heap, id, arr), slice |-> [arr |-> id, len |-> s.len + 1]]

\* s[:len(s)-1]
DropLast(s) == [s EXCEPT !.len = s.len - 1]

\* --------------------------------------------------------------- AppModel

\* The five text widgets of the AppModel.
Widgets == {"urlInput", "bodyInput", "paramInput", "headerInput", "saveNameInput"}

ContentType == [Key |-> <<"Content-Type">>, Value |-> <<"application/json">>]

\* What a SavedRequest or a draft holds, with the slices read out.
Deep(heap, sr) ==
  [Name |-> sr.Name, Method |-> sr.Method, URL |-> sr.URL, Body |-> sr.Body,
   Headers |-> Elems(heap, sr.Headers), Params |-> Elems(heap, sr.Params)]

RECURSIVE FromSeq(_, _, _)
\* A fresh slice holding the elements of seq from position i on (json.Unmarshal
\* grows the slice element by element).
FromSeq(acc, seq, i) ==
  IF i > Len(seq) THEN acc
  ELSE FromSeq(GoAppend(acc.heap, acc.slice, seq[i]), seq, i + 1)

RECURSIVE LoadItems(_, _, _)
\* The records of the file, decoded one by one into SavedRequest values.
LoadItems(acc, file, i) ==
  IF i > Len(file) THEN acc
  ELSE LET h == FromSeq([heap |-> acc.heap, slice |-> NilSlice], file[i].Headers, 1)
           p == FromSeq([heap |-> h.heap, slice |-> NilSlice], file[i].Params, 1)
           sr == [Name |-> file[i].Name, Method |-> file[i].Method,
                  URL |-> file[i].URL, Body |-> file[i].Body,
                  Headers |-> h.slice, Params |-> p.slice]
       IN LoadItems([heap |-> p.heap, items |-> Append(acc.items, sr)], file, i + 1)

loadRequests(m) ==
  LET r == LoadItems([heap |-> m.heap, items |-> <<>>], m.file, 1)
  IN [m EXCEPT !.heap = r.heap, !.savedRequests = r.items]

\* The AppModel after construction, with the preset file found on disk.
NewAppModel(file) ==
  loadRequests(
    [urlInput |-> NewInput, bodyInput |-> NewInput, paramInput |-> NewInput,
     headerInput |-> NewInput, saveNameInput |-> NewInput,
     savedListIndex |-> 0,
     vpContent |-> <<>>,
     vpOffset |-> 0,
     params |-> NilSlice,
     headers |-> [arr |-> 1, len |-> 1],
     savedRequests |-> <<>>,
     activeTab |-> TabRequest,
     activeSection |-> SectionMethod,
     selectedMethod |-> 0,
     loading |-> FALSE,
     response |-> <<>>,
     status |-> <<>>,
     responseTime |-> <<>>,
     errorMsg |-> <<>>,
     inputMode |-> FALSE,
     isSaving |-> FALSE,
     isDeleting |-> FALSE,
     panicked |-> FALSE,
     heap |-> << <<ContentType>> >>,
     file |-> file,
     writable |-> TRUE])

\* A write whose failure stops the program.
saveRequestsOrPanic(m) ==
  IF m.writable
  THEN [m EXCEPT !.file = [i \in 1..Len(m.savedRequests) |->
                             Deep(m.heap, m.savedRequests[i])]]
  ELSE [m EXCEPT !.panicked = TRUE]

\* saveRequests: the whole list is written over the file.  When the file
\* cannot be written WriteFile returns an error, which the callers drop, and
\* the file is as before.
saveRequests(m) ==
  IF m.writable
  THEN [m EXCEPT !.file = [i \in 1..Len(m.savedRequests) |->
                             Deep(m.heap, m.savedRequests[i])]]
  ELSE m

\* A save that writes over the saved request of the same name.
AddNewSavedRequestOverName(m, name) ==
  LET newReq == [Name |-> name, Method |-> m.selectedMethod,
                 URL |-> m.urlInput.value, Body |-> m.bodyInput.value,
                 Headers |-> m.headers, Params |-> m.params]
      same == {i \in 1..Len(m.savedRequests) : m.savedRequests[i].Name = name}
  IN IF same = {}
     THEN saveRequests([m EXCEPT !.savedRequests = Append(m.savedRequests, newReq)])
     ELSE saveRequests([m EXCEPT !.savedRequests =
                          [i \in 1..Len(m.savedRequests) |->
                             IF i \in same THEN newReq ELSE m.savedRequests[i]]])

AddNewSavedRequest(m, name) ==
  LET newReq == [Name |-> name, Method |-> m.selectedMethod,
                 URL |-> m.urlInput.value, Body |-> m.bodyInput.value,
                 Headers |-> m.headers, Params |-> m.params]
  IN saveRequests([m EXCEPT !.savedRequests = Append(m.savedRequests, newReq)])

\* list.Model.SelectedItem: the item under the cursor, none when the cursor is
\* outside the items.
HasSelectedItem(m) ==
  m.savedListIndex >= 0 /\ m.savedListIndex < Len(m.savedRequests)

SelectedItem(m) == m.savedRequests[m.savedListIndex + 1]

\* A load that leaves the body of the draft alone.
LoadRequestFromSavedKeepsBody(m) ==
  IF HasSelectedItem(m)
  THEN LET item == SelectedItem(m)
       IN [m EXCEPT !.selectedMethod = item.Method,
                    !.urlInput = SetValue(m.urlInput, item.URL),
                    !.headers = item.Headers,
                    !.params = item.Params,
                    !.activeTab = TabRequest]
  ELSE m

LoadRequestFromSaved(m) ==
  IF HasSelectedItem(m)
  THEN LET item == SelectedItem(m)
       IN [m EXCEPT !.selectedMethod = item.Method,
                    !.urlInput = SetValue(m.urlInput, item.URL),
                    !.bodyInput = SetValue(m.bodyInput, item.Body),
                    !.headers = item.Headers,
                    !.params = item.Params,
                    !.activeTab = TabRequest]
  ELSE m

\* s with the element at 0-based position idx removed.
RemoveAt(s, idx) == [i \in 1..(Len(s) - 1) |-> IF i <= idx THEN s[i] ELSE s[i + 1]]

\* The slice expression savedRequests[idx+1:] panics when idx+1 > len.
DeleteSelectedRequest(m) ==
  IF Len(m.savedRequests) > 0
  THEN LET idx == m.savedListIndex
       IN IF idx < 0 \/ idx + 1 > Len(m.savedRequests)
          THEN [m EXCEPT !.panicked = TRUE]
          ELSE saveRequests([m EXCEPT !.savedRequests = RemoveAt(m.savedRequests, idx)])
  ELSE m

\* The response bodies of the model: compact JSON, indented JSON, no JSON.
CompactJSON == <<"{\"a\":1}">>
IndentedJSON == <<"{\n  \"a\": 1\n}">>
NotJSON == <<"oops">>

\* A body of twelve lines that is not JSON.
LongText == [i \in 1..23 |-> IF i % 2 = 0 THEN "\n" ELSE "x"]

\* The height viewport.New(10, 10) gives the viewport of the response.
VpHeight == 10

\* len(strings.Split(s, "\n")) of a content of the model.
LineCount(c) ==
  IF c = IndentedJSON THEN 3
  ELSE 1 + Cardinality({i \in 1..Len(c) : c[i] = "\n"})

\* viewport.Model.maxYOffset: the offset that shows the last line at the
\* bottom of the viewport.
maxYOffset(c) == IF LineCount(c) > VpHeight THEN LineCount(c) - VpHeight ELSE 0

\* The offset viewport.Model.SetContent leaves: an offset past the last line
\* of the new content goes to the bottom.
SetContentOffset(m, c) ==
  IF m.vpOffset > LineCount(c) - 1 THEN maxYOffset(c) ELSE m.vpOffset

\* viewport.Model.Update on a key: up/k and down/j move the offset by one
\* line, d by half the height, inside the content.
ViewportUpdate(m, k) ==
  LET top == maxYOffset(m.vpContent)
      o == m.vpOffset
      down(n) == IF o >= top THEN o ELSE IF o + n > top THEN top ELSE o + n
  IN IF k \in {"down", "j"} THEN [m EXCEPT !.vpOffset = down(1)]
     ELSE IF k \in {"up", "k"} THEN [m EXCEPT !.vpOffset = IF o > 0 THEN o - 1 ELSE 0]
     ELSE IF k = "d" THEN [m EXCEPT !.vpOffset = down(VpHeight \div 2)]
     ELSE m

\* json.Indent succeeds on JSON text and yields its two-space indentation.
FormatJSON(input) ==
  IF input = <<>> THEN <<>>
  ELSE IF input \in {CompactJSON, IndentedJSON} THEN IndentedJSON
  ELSE input

\* A response that leaves the loading flag alone.
SetResponseDataKeepsLoading(m, data) ==
  [m EXCEPT !.response = FormatJSON(data.Body),
            !.status = <<data.Status, " (", data.StatusCode, ")">>,
            !.responseTime = data.Time,
            !.vpContent = FormatJSON(data.Body),
            !.vpOffset = SetContentOffset(m, FormatJSON(data.Body)),
            !.errorMsg = <<>>,
            !.activeTab = TabResponse]

SetResponseData(m, data) ==
  [m EXCEPT !.loading = FALSE,
            !.response = FormatJSON(data.Body),
            !.status = <<data.Status, " (", data.StatusCode, ")">>,
            !.responseTime = data.Time,
            !.vpContent = FormatJSON(data.Body),
            !.vpOffset = SetContentOffset(m, FormatJSON(data.Body)),
            !.errorMsg = <<>>,
            !.activeTab = TabResponse]

\* An error that leaves the response body alone.
SetErrorKeepsResponse(m, err) ==
  [m EXCEPT !.loading = FALSE,
            !.errorMsg = err.Message,
            !.status = <<"Error">>,
            !.responseTime = <<>>,
            !.vpContent = err.Message,
            !.vpOffset = SetContentOffset(m, err.Message),
            !.activeTab = TabResponse]

SetError(m, err) ==
  [m EXCEPT !.loading = FALSE,
            !.errorMsg = err.Message,
            !.response = <<>>,
            !.status = <<"Error">>,
            !.responseTime = <<>>,
            !.vpContent = err.Message,
            !.vpOffset = SetContentOffset(m, err.Message),
            !.activeTab = TabResponse]

GetCurrentMethod(m) == MethodNames[m.selectedMethod + 1]

AddParam(m, key, value) ==
  LET r == GoAppend(m.heap, m.params, [Key |-> key, Value |-> value])
  IN [m EXCEPT !.heap = r.heap, !.params = r.slice]

RemoveLastParam(m) ==
  IF m.params.len > 0 THEN [m EXCEPT !.params = DropLast(m.params)] ELSE m

\* An append that writes over the last header when there is one.
AddHeaderOverLast(m, key, value) ==
  IF m.headers.len = 0
  THEN LET r == GoAppend(m.heap, m.headers, [Key |-> key, Value |-> value])
       IN [m EXCEPT !.heap = r.heap, !.headers = r.slice]
  ELSE [m EXCEPT !.heap[m.headers.arr][m.headers.len] = [Key |-> key, Value |-> value]]

AddHeader(m, key, value) ==
  LET r == GoAppend(m.heap, m.headers, [Key |-> key, Value |-> value])
  IN [m EXCEPT !.heap = r.heap, !.headers = r.slice]

RemoveLastHeader(m) ==
  IF m.headers.len > 0 THEN [m EXCEPT !.headers = DropLast(m.headers)] ELSE m

SetLoading(m, loading) == [m EXCEPT !.loading = loading]

\* ---------------------------------------------------------- event handler

\* The mode, in the order HandleKeyEvent looks at the flags.
Mode(m) ==
  IF m.isSaving THEN "SaveNamePrompt"
  ELSE IF m.isDeleting THEN "DeleteConfirm"
  ELSE IF m.inputMode THEN "TextEdit"
  ELSE "Navigation"

\* What a handler returns: the model, the command and the consumed flag.
Ret(m, cmd, consumed) == [m |-> m, cmd |-> cmd, consumed |-> consumed]

\* A focus update that blurs nothing first.
updateFocusNoBlur(m) ==
  IF m.inputMode /\ m.activeTab = TabRequest
  THEN CASE m.activeSection = SectionURL -> [m EXCEPT !.urlInput = Focus(m.urlInput)]
         [] m.activeSection = SectionHeaders -> [m EXCEPT !.headerInput = Focus(m.headerInput)]
         [] m.activeSection = SectionBody -> [m EXCEPT !.bodyInput = Focus(m.bodyInput)]
         [] m.activeSection = SectionParams -> [m EXCEPT !.paramInput = Focus(m.paramInput)]
         [] OTHER -> m
  ELSE m

updateFocus(m) ==
  LET b == [m EXCEPT !.urlInput = Blur(m.urlInput),
                     !.headerInput = Blur(m.headerInput),
                     !.bodyInput = Blur(m.bodyInput),
                     !.paramInput = Blur(m.paramInput)]
  IN IF b.inputMode /\ b.activeTab = TabRequest
     THEN CASE b.activeSection = SectionURL -> [b EXCEPT !.urlInput = Focus(b.urlInput)]
            [] b.activeSection = SectionHeaders -> [b EXCEPT !.headerInput = Focus(b.headerInput)]
            [] b.activeSection = SectionBody -> [b EXCEPT !.bodyInput = Focus(b.bodyInput)]
            [] b.activeSection = SectionParams -> [b EXCEPT !.paramInput = Focus(b.paramInput)]
            [] OTHER -> b
     ELSE b

\* list.Model.Update on a key: the cursor moves down and up inside the items.
ListUpdate(m, k) ==
  LET n == Len(m.savedRequests)
      c == m.savedListIndex
  IN IF k \in {"down", "j"}
     THEN [m EXCEPT !.savedListIndex = IF c + 1 < n THEN c + 1 ELSE IF n = 0 THEN 0 ELSE n - 1]
     ELSE IF k \in {"up", "k"}
     THEN [m EXCEPT !.savedListIndex = IF c > 0 THEN c - 1 ELSE 0]
     ELSE m

\* The command of sendRequest is a closure over the model pointer: nothing of
\* the draft is read when it is made.
sendRequest(m) == "SendRequest"

\* An Enter that sends whatever the URL input holds.
handleEnterOnRequestTabSendsEmpty(m) ==
  IF m.activeSection \in {SectionHeaders, SectionParams}
  THEN [m |-> m, cmd |-> "None"]
  ELSE [m |-> SetLoading(m, TRUE), cmd |-> sendRequest(m)]

\* An Enter that sends nothing while a request is out.
handleEnterOnRequestTabGuarded(m) ==
  IF m.activeSection \in {SectionHeaders, SectionParams}
  THEN [m |-> m, cmd |-> "None"]
  ELSE IF m.urlInput.value # <<>> /\ ~m.loading
  THEN [m |-> SetLoading(m, TRUE), cmd |-> sendRequest(m)]
  ELSE [m |-> m, cmd |-> "None"]

handleEnterOnRequestTab(m) ==
  CASE m.activeSection = SectionHeaders ->
         IF m.headerInput.value # <<>>
         THEN LET parts == SplitN(m.headerInput.value)
              IN IF Len(parts) = 2
                 THEN [m |-> [AddHeader(m, parts[1], parts[2])
                                EXCEPT !.headerInput = SetValue(m.headerInput, <<>>)],
                       cmd |-> "None"]
                 ELSE [m |-> m, cmd |-> "None"]
         ELSE [m |-> m, cmd |-> "None"]
    [] m.activeSection = SectionParams ->
         IF m.paramInput.value # <<>>
         THEN LET parts == SplitN(m.paramInput.value)
              IN IF Len(parts) = 2
                 THEN [m |-> [AddParam(m, parts[1], parts[2])
                                EXCEPT !.paramInput = SetValue(m.paramInput, <<>>)],
                       cmd |-> "None"]
                 ELSE [m |-> m, cmd |-> "None"]
         ELSE [m |-> m, cmd |-> "None"]
    [] OTHER ->
         IF m.urlInput.value # <<>>
         THEN [m |-> SetLoading(m, TRUE), cmd |-> sendRequest(m)]
         ELSE [m |-> m, cmd |-> "None"]

handleEnterKey(m) ==
  CASE m.activeTab = TabRequest -> handleEnterOnRequestTab(m)
    [] m.activeTab = TabSaved -> [m |-> LoadRequestFromSaved(m), cmd |-> "None"]
    [] OTHER -> [m |-> m, cmd |-> "None"]

\* A backspace that does not look at the input buffers.
handleBackspaceKeyIgnoresBuffer(m) ==
  IF m.activeTab # TabRequest THEN [m |-> m, cmd |-> "None"]
  ELSE CASE m.activeSection = SectionHeaders ->
              [m |-> IF m.headers.len > 0 THEN RemoveLastHeader(m) ELSE m, cmd |-> "None"]
         [] m.activeSection = SectionParams ->
              [m |-> IF m.params.len > 0 THEN RemoveLastParam(m) ELSE m, cmd |-> "None"]
         [] OTHER -> [m |-> m, cmd |-> "None"]

handleBackspaceKey(m) ==
  IF m.activeTab # TabRequest THEN [m |-> m, cmd |-> "None"]
  ELSE CASE m.activeSection = SectionHeaders ->
              [m |-> IF m.headers.len > 0 /\ m.headerInput.value = <<>>
                     THEN RemoveLastHeader(m) ELSE m,
               cmd |-> "None"]
         [] m.activeSection = SectionParams ->
              [m |-> IF m.params.len > 0 /\ m.paramInput.value = <<>>
                     THEN RemoveLastParam(m) ELSE m,
               cmd |-> "None"]
         [] OTHER -> [m |-> m, cmd |-> "None"]

\* Going back by subtracting one: Go's remainder of -1 by 5 is -1.
PrevSectionMinusOne(sec) == IF sec = 0 THEN -1 ELSE (sec - 1) % 5

\* Going on through the methods with no wrap at the last.
NextMethodNoWrap(meth) == IF meth + 1 < Len(MethodNames) THEN meth + 1 ELSE meth

\* A step back through the methods that does not wrap.
PrevMethodBelowZero(meth) == meth - 1

\* Cycling through the sections, the methods and the tabs.
PrevSection(sec) == (sec + 4) % 5
NextSection(sec) == (sec + 1) % 5
PrevMethod(meth) == (meth - 1 + Len(MethodNames)) % Len(MethodNames)
NextMethod(meth) == (meth + 1) % Len(MethodNames)
PrevTab(t) == (t - 1 + 3) % 3
NextTab(t) == (t + 1) % 3

\* The section a digit key names.
DigitSection(k) ==
  CASE k = "1" -> 0 [] k = "2" -> 1 [] k = "3" -> 2 [] k = "4" -> 3 [] k = "5" -> 4
    [] OTHER -> 0

\* A navigation table whose section keys do not look at the tab.
handleNavigationModeSectionsOnAnyTab(m, k) ==
  CASE k \in {"ctrl+c", "q"} -> Ret(m, "Quit", TRUE)
    [] k \in {"left", "h"} ->
         IF m.activeTab = TabRequest /\ m.activeSection = SectionMethod
         THEN Ret([m EXCEPT !.selectedMethod = PrevMethod(m.selectedMethod)], "None", TRUE)
         ELSE Ret([m EXCEPT !.activeTab = PrevTab(m.activeTab)], "None", TRUE)
    [] k \in {"right", "l"} ->
         IF m.activeTab = TabRequest /\ m.activeSection = SectionMethod
         THEN Ret([m EXCEPT !.selectedMethod = NextMethod(m.selectedMethod)], "None", TRUE)
         ELSE Ret([m EXCEPT !.activeTab = NextTab(m.activeTab)], "None", TRUE)
    [] k \in {"k", "up", "shift+tab"} ->
         Ret(updateFocus([m EXCEPT !.activeSection = PrevSection(m.activeSection)]),
             "None", TRUE)
    [] k \in {"j", "down", "tab"} ->
         Ret(updateFocus([m EXCEPT !.activeSection = NextSection(m.activeSection)]),
             "None", TRUE)
    [] k \in {"1", "2", "3", "4", "5"} ->
         Ret(updateFocus([m EXCEPT !.activeSection = DigitSection(k)]), "None", TRUE)
    [] OTHER -> Ret(m, "None", FALSE)

\* A navigation table whose save and delete keys do not look at the tab.
handleNavigationModeOverlaysOnAnyTab(m, k) ==
  CASE k = "ctrl+s" ->
         Ret([m EXCEPT !.isSaving = TRUE, !.saveNameInput = Focus(m.saveNameInput)],
             "None", TRUE)
    [] k = "d" -> Ret([m EXCEPT !.isDeleting = TRUE], "None", TRUE)
    [] k \in {"right", "l"} ->
         IF m.activeTab = TabRequest /\ m.activeSection = SectionMethod
         THEN Ret([m EXCEPT !.selectedMethod = NextMethod(m.selectedMethod)], "None", TRUE)
         ELSE Ret([m EXCEPT !.activeTab = NextTab(m.activeTab)], "None", TRUE)
    [] k \in {"j", "down"} ->
         IF m.activeTab = TabRequest
         THEN Ret(updateFocus([m EXCEPT !.activeSection = NextSection(m.activeSection)]),
                  "None", TRUE)
         ELSE IF m.activeTab = TabSaved THEN Ret(ListUpdate(m, k), "None", TRUE)
         ELSE Ret(m, "None", TRUE)
    [] k = "enter" -> LET r == handleEnterKey(m) IN Ret(r.m, r.cmd, TRUE)
    [] OTHER -> Ret(m, "None", FALSE)

\* A navigation table that consumes the keys it does not know.
handleNavigationModeConsumesAll(m, k) ==
  CASE k = "ctrl+s" ->
         IF m.activeTab = TabRequest
         THEN Ret([m EXCEPT !.isSaving = TRUE, !.saveNameInput = Focus(m.saveNameInput)],
                  "None", TRUE)
         ELSE Ret(m, "None", TRUE)
    [] k = "d" ->
         IF m.activeTab = TabSaved
         THEN Ret([m EXCEPT !.isDeleting = TRUE], "None", TRUE)
         ELSE Ret(m, "None", TRUE)
    [] k \in {"right", "l"} ->
         IF m.activeTab = TabRequest /\ m.activeSection = SectionMethod
         THEN Ret([m EXCEPT !.selectedMethod = NextMethod(m.selectedMethod)], "None", TRUE)
         ELSE Ret([m EXCEPT !.activeTab = NextTab(m.activeTab)], "None", TRUE)
    [] k \in {"j", "down"} ->
         IF m.activeTab = TabRequest
         THEN Ret(updateFocus([m EXCEPT !.activeSection = NextSection(m.activeSection)]),
                  "None", TRUE)
         ELSE IF m.activeTab = TabSaved THEN Ret(ListUpdate(m, k), "None", TRUE)
         ELSE Ret(m, "None", TRUE)
    [] k = "enter" -> LET r == handleEnterKey(m) IN Ret(r.m, r.cmd, TRUE)
    [] OTHER -> Ret(m, "None", TRUE)

handleNavigationMode(m, k) ==
  CASE k \in {"ctrl+c", "q"} -> Ret(m, "Quit", TRUE)
    [] k \in {"i", "a"} -> Ret(updateFocus([m EXCEPT !.inputMode = TRUE]), "None", TRUE)
    [] k = "ctrl+s" ->
         IF m.activeTab = TabRequest
         THEN Ret([m EXCEPT !.isSaving = TRUE, !.saveNameInput = Focus(m.saveNameInput)],
                  "None", TRUE)
         ELSE Ret(m, "None", TRUE)
    [] k \in {"left", "h"} ->
         IF m.activeTab = TabRequest /\ m.activeSection = SectionMethod
         THEN Ret([m EXCEPT !.selectedMethod = PrevMethod(m.selectedMethod)], "None", TRUE)
         ELSE Ret([m EXCEPT !.activeTab = PrevTab(m.activeTab)], "None", TRUE)
    [] k \in {"right", "l"} ->
         IF m.activeTab = TabRequest /\ m.activeSection = SectionMethod
         THEN Ret([m EXCEPT !.selectedMethod = NextMethod(m.selectedMethod)], "None", TRUE)
         ELSE Ret([m EXCEPT !.activeTab = NextTab(m.activeTab)], "None", TRUE)
    [] k \in {"k", "up"} ->
         IF m.activeTab = TabRequest
         THEN Ret(updateFocus([m EXCEPT !.activeSection = PrevSection(m.activeSection)]),
                  "None", TRUE)
         ELSE IF m.activeTab = TabSaved THEN Ret(ListUpdate(m, k), "None", TRUE)
         ELSE Ret(m, "None", TRUE)
    [] k \in {"j", "down"} ->
         IF m.activeTab = TabRequest
         THEN Ret(updateFocus([m EXCEPT !.activeSection = NextSection(m.activeSection)]),
                  "None", TRUE)
         ELSE IF m.activeTab = TabSaved THEN Ret(ListUpdate(m, k), "None", TRUE)
         ELSE Ret(m, "None", TRUE)
    [] k = "tab" ->
         IF m.activeTab = TabRequest
         THEN Ret(updateFocus([m EXCEPT !.activeSection = NextSection(m.activeSection)]),
                  "None", TRUE)
         ELSE Ret(m, "None", TRUE)
    [] k = "shift+tab" ->
         IF m.activeTab = TabRequest
         THEN Ret(updateFocus([m EXCEPT !.activeSection = PrevSection(m.activeSection)]),
                  "None", TRUE)
         ELSE Ret(m, "None", TRUE)
    [] k \in {"1", "2", "3", "4", "5"} ->
         IF m.activeTab = TabRequest
         THEN Ret(updateFocus([m EXCEPT !.activeSection = DigitSection(k)]), "None", TRUE)
         ELSE Ret(m, "None", TRUE)
    [] k = "d" ->
         IF m.activeTab = TabSaved
         THEN Ret([m EXCEPT !.isDeleting = TRUE], "None", TRUE)
         ELSE Ret(m, "None", TRUE)
    [] k = "enter" -> LET r == handleEnterKey(m) IN Ret(r.m, r.cmd, TRUE)
    [] k = "backspace" -> LET r == handleBackspaceKey(m) IN Ret(r.m, r.cmd, TRUE)
    [] OTHER -> Ret(m, "None", FALSE)

\* An escape that leaves the focus where it is.
handleInputModeEscKeepsFocus(m, k) ==
  CASE k = "esc" -> Ret([m EXCEPT !.inputMode = FALSE], "None", TRUE)
    [] k \in {"ctrl+c", "q"} /\ m.activeSection # SectionBody -> Ret(m, "Quit", TRUE)
    [] k = "enter" /\ m.activeSection \in {SectionHeaders, SectionParams} ->
         LET r == handleEnterOnRequestTab(m) IN Ret(r.m, r.cmd, TRUE)
    [] OTHER -> Ret(m, "None", FALSE)

\* A text-edit handler that quits on the body section too.
handleInputModeQuitsOnBody(m, k) ==
  CASE k = "esc" -> Ret(updateFocus([m EXCEPT !.inputMode = FALSE]), "None", TRUE)
    [] k \in {"ctrl+c", "q"} -> Ret(m, "Quit", TRUE)
    [] k = "enter" /\ m.activeSection \in {SectionHeaders, SectionParams} ->
         LET r == handleEnterOnRequestTab(m) IN Ret(r.m, r.cmd, TRUE)
    [] OTHER -> Ret(m, "None", FALSE)

\* A text-edit handler that takes Enter on every section.
handleInputModeEnterEverywhere(m, k) ==
  CASE k = "esc" -> Ret(updateFocus([m EXCEPT !.inputMode = FALSE]), "None", TRUE)
    [] k \in {"ctrl+c", "q"} /\ m.activeSection # SectionBody -> Ret(m, "Quit", TRUE)
    [] k = "enter" -> LET r == handleEnterOnRequestTab(m) IN Ret(r.m, r.cmd, TRUE)
    [] OTHER -> Ret(m, "None", FALSE)

\* A text-edit handler that takes Backspace on the headers and the params.
handleInputModeBackspaceReserved(m, k) ==
  CASE k = "esc" -> Ret(updateFocus([m EXCEPT !.inputMode = FALSE]), "None", TRUE)
    [] k \in {"ctrl+c", "q"} /\ m.activeSection # SectionBody -> Ret(m, "Quit", TRUE)
    [] k = "enter" /\ m.activeSection \in {SectionHeaders, SectionParams} ->
         LET r == handleEnterOnRequestTab(m) IN Ret(r.m, r.cmd, TRUE)
    [] k = "backspace" /\ m.activeSection \in {SectionHeaders, SectionParams} ->
         LET r == handleBackspaceKey(m) IN Ret(r.m, r.cmd, TRUE)
    [] OTHER -> Ret(m, "None", FALSE)

handleInputMode(m, k) ==
  CASE k = "esc" -> Ret(updateFocus([m EXCEPT !.inputMode = FALSE]), "None", TRUE)
    [] k \in {"ctrl+c", "q"} /\ m.activeSection # SectionBody -> Ret(m, "Quit", TRUE)
    [] k = "enter" /\ m.activeSection \in {SectionHeaders, SectionParams} ->
         LET r == handleEnterOnRequestTab(m) IN Ret(r.m, r.cmd, TRUE)
    [] OTHER -> Ret(m, "None", FALSE)

\* A prompt that saves the name it holds, empty or not.
handleSaveAsPromptSavesEmpty(m, k) ==
  LET name == m.saveNameInput.value
      closed(x) == [x EXCEPT !.saveNameInput = Blur(SetValue(x.saveNameInput, <<>>)),
                             !.isSaving = FALSE]
      m1 == CASE k = "enter" -> closed(AddNewSavedRequest(m, name))
              [] k = "esc" -> closed(m)
              [] OTHER -> m
  IN Ret([m1 EXCEPT !.saveNameInput = TextInputUpdate(m1.saveNameInput, k)], "None", TRUE)

\* A save prompt that keeps the name and stays open on Escape.
handleSaveAsPromptEscapeIgnored(m, k) ==
  LET name == m.saveNameInput.value
      closed(x) == [x EXCEPT !.saveNameInput = Blur(SetValue(x.saveNameInput, <<>>)),
                             !.isSaving = FALSE]
      m1 == CASE k = "enter" -> closed(IF name # <<>> THEN AddNewSavedRequest(m, name) ELSE m)
              [] OTHER -> m
  IN Ret([m1 EXCEPT !.saveNameInput = TextInputUpdate(m1.saveNameInput, k)], "None", TRUE)

handleSaveAsPrompt(m, k) ==
  LET name == m.saveNameInput.value
      closed(x) == [x EXCEPT !.saveNameInput = Blur(SetValue(x.saveNameInput, <<>>)),
                             !.isSaving = FALSE]
      m1 == CASE k = "enter" -> closed(IF name # <<>> THEN AddNewSavedRequest(m, name) ELSE m)
              [] k = "esc" -> closed(m)
              [] OTHER -> m
  IN Ret([m1 EXCEPT !.saveNameInput = TextInputUpdate(m1.saveNameInput, k)], "None", TRUE)

\* A confirmation that hands the keys it does not know to the navigation table.
handleDeleteConfirmationFallsThrough(m, k) ==
  CASE ToLower(k) = "y" -> Ret([DeleteSelectedRequest(m) EXCEPT !.isDeleting = FALSE],
                               "None", TRUE)
    [] ToLower(k) \in {"n", "esc"} -> Ret([m EXCEPT !.isDeleting = FALSE], "None", TRUE)
    [] OTHER -> handleNavigationMode([m EXCEPT !.isDeleting = FALSE], k)

\* A confirmation that any key but y closes.
handleDeleteConfirmationAnyKeyCloses(m, k) ==
  CASE ToLower(k) = "y" -> Ret([DeleteSelectedRequest(m) EXCEPT !.isDeleting = FALSE],
                               "None", TRUE)
    [] OTHER -> Ret([m EXCEPT !.isDeleting = FALSE], "None", TRUE)

handleDeleteConfirmation(m, k) ==
  CASE ToLower(k) = "y" -> Ret([DeleteSelectedRequest(m) EXCEPT !.isDeleting = FALSE],
                               "None", TRUE)
    [] ToLower(k) \in {"n", "esc"} -> Ret([m EXCEPT !.isDeleting = FALSE], "None", TRUE)
    [] OTHER -> Ret(m, "None", TRUE)

\* A dispatch that does not look at the save prompt.
HandleKeyEventSkipsSaving(m, k) ==
  IF m.isDeleting THEN handleDeleteConfirmation(m, k)
  ELSE IF ~m.inputMode THEN handleNavigationMode(m, k)
  ELSE handleInputMode(m, k)

HandleKeyEvent(m, k) ==
  IF m.isSaving THEN handleSaveAsPrompt(m, k)
  ELSE IF m.isDeleting THEN handleDeleteConfirmation(m, k)
  ELSE IF ~m.inputMode THEN handleNavigationMode(m, k)
  ELSE handleInputMode(m, k)

\* The key goes to the component of the active tab.
UpdateComponents(m, k) ==
  CASE m.activeTab = TabRequest ->
         IF m.inputMode
         THEN CASE m.activeSection = SectionURL ->
                     [m EXCEPT !.urlInput = TextInputUpdate(m.urlInput, k)]
                [] m.activeSection = SectionHeaders ->
                     [m EXCEPT !.headerInput = TextInputUpdate(m.headerInput, k)]
                [] m.activeSection = SectionBody ->
                     [m EXCEPT !.bodyInput = TextAreaUpdate(m.bodyInput, k)]
                [] m.activeSection = SectionParams ->
                     [m EXCEPT !.paramInput = TextInputUpdate(m.paramInput, k)]
                [] OTHER -> m
         ELSE m
    [] m.activeTab = TabResponse -> ViewportUpdate(m, k)
    [] m.activeTab = TabSaved -> ListUpdate(m, k)
    [] OTHER -> m

\* The key branch of App.Update: the handler first; a key it did not consume
\* goes on to the components.
UpdateKey(m, k) ==
  LET r == HandleKeyEvent(m, k)
  IN IF r.consumed THEN r ELSE Ret(UpdateComponents(r.m, k), r.cmd, FALSE)

\* ------------------------------------------------------------------ state

VARIABLES
  model,        \* the AppModel the App holds, with the heap and the preset file
  inflight,     \* the commands dispatched and not yet folded in, oldest first
  lastEvent,    \* the kind of the last event: "key", "msg", or "none" at start
  lastCmd,      \* the command the last event returned
  consumed,     \* the consumed flag the last key event returned
  running,      \* FALSE once the program has quit or panicked
  typed,        \* characters typed so far
  created,      \* per saved request, its content when it was created
  enteredFrom,  \* stage 1 after i/a in navigation, with the section and tab it was
                \* pressed on; stage 2 after the escape that follows at once
  followed      \* the place in inflight of the request an observer follows, 0
                \* when it follows none

vars == <<model, inflight, lastEvent, lastCmd, consumed, running, typed, created, enteredFrom,
         followed>>

\* The request a command has built so far.  pc: "new" (nothing read), "built"
\* (NewHTTPRequest has run), "sent" (SendRequest has read the slices).
NoContent == [Method |-> "", URL |-> <<>>, Body |-> <<>>, Headers |-> <<>>, Params |-> <<>>]

\* The draft, with the slices read out.
Draft(m) ==
  [Method |-> GetCurrentMethod(m), URL |-> m.urlInput.value, Body |-> m.bodyInput.value,
   Headers |-> Elems(m.heap, m.headers), Params |-> Elems(m.heap, m.params)]

NewFlight(m) ==
  [pc |-> "new", Method |-> "", URL |-> <<>>, Body |-> <<>>,
   Headers |-> NilSlice, Params |-> NilSlice,
   atEnter |-> Draft(m), sent |-> NoContent]

\* NewHTTPRequest: the request is built from the model the closure points to.
NewHTTPRequest(m, f) ==
  [f EXCEPT !.pc = "built",
            !.Body = m.bodyInput.value,
            !.Method = GetCurrentMethod(m),
            !.URL = m.urlInput.value,
            !.Headers = m.headers,
            !.Params = m.params]

\* A transport call that never comes back.
SendRequestNeverReturns(m, f) == f

\* HTTPClient.SendRequest: the URL, the params and the headers of the request
\* go into the HTTP request that is sent.
SendRequest(m, f) ==
  [f EXCEPT !.pc = "sent",
            !.sent = [Method |-> f.Method, URL |-> f.URL, Body |-> f.Body,
                      Headers |-> Elems(m.heap, f.Headers),
                      Params |-> Elems(m.heap, f.Params)]]

\* ------------------------------------------------------ garbage collection

\* The slices that are alive.
Roots(m, fl) ==
  {m.headers, m.params}
    \cup {m.savedRequests[i].Headers : i \in 1..Len(m.savedRequests)}
    \cup {m.savedRequests[i].Params : i \in 1..Len(m.savedRequests)}
    \cup {fl[i].Headers : i \in 1..Len(fl)}
    \cup {fl[i].Params : i \in 1..Len(fl)}

Max(S) == CHOOSE x \in S : \A y \in S : y <= x

\* Arrays no slice points to are freed, and the slots no slice shows are
\* zeroed: nothing can read them before an append writes them.
Collect(m, fl) ==
  LET live(id) == {s \in Roots(m, fl) : s.arr = id}
      shown(id) == Max({s.len : s \in live(id)})
      swept == [id \in 1..Len(m.heap) |->
                  IF live(id) = {} THEN <<>>
                  ELSE [i \in 1..Len(m.heap[id]) |->
                          IF i <= shown(id) THEN m.heap[id][i] ELSE ZeroPair]]
      used == {id \in 1..Len(swept) : swept[id] # <<>>}
      top == IF used = {} THEN 0 ELSE Max(used)
  IN [m EXCEPT !.heap = SubSeq(swept, 1, top)]

\* ---------------------------------------------------------------- actions

\* The preset files the program may find at start.
Preset0 ==
  [Name |-> <<"p">>, Method |-> 1, URL |-> <<>>, Body |-> <<"b">>,
   Headers |-> <<ContentType>>, Params |-> <<>>]

Files == {<<>>, <<Preset0>>}

\* Nothing to remember: the last key was not i or a pressed in navigation.
NotEntered == [stage |-> 0, section |-> 0, tab |-> 0]

\* The ghost record of the saved requests follows the list.
CreatedAfter(m, m2) ==
  IF Len(m2.savedRequests) = Len(m.savedRequests) + 1
  THEN Append(created, Deep(m2.heap, m2.savedRequests[Len(m2.savedRequests)]))
  ELSE IF Len(m2.savedRequests) = Len(m.savedRequests) - 1
  THEN RemoveAt(created, m.savedListIndex)
  ELSE created

\* App.Update on a key message, for a user who types at most budget characters.
Key(k, budget) ==
  LET r == UpdateKey(model, k)
      grew == /\ ~r.consumed \/ model.isSaving
              /\ \E w \in Widgets : Len(r.m[w].value) = Len(model[w].value) + 1
      nav == ~model.isSaving /\ ~model.isDeleting /\ ~model.inputMode
  IN /\ running
     /\ grew => typed < budget
     /\ r.cmd = "SendRequest" => Len(inflight) < MaxInflight
     /\ inflight' = IF r.cmd = "SendRequest" THEN Append(inflight, NewFlight(r.m))
                    ELSE inflight
     /\ model' = Collect(r.m, inflight')
     /\ lastEvent' = "key"
     /\ lastCmd' = r.cmd
     /\ consumed' = r.consumed
     /\ running' = (r.cmd # "Quit" /\ ~r.m.panicked)
     /\ typed' = IF grew THEN typed + 1 ELSE typed
     /\ created' = CreatedAfter(model, r.m)
     /\ enteredFrom' = IF nav /\ k \in {"i", "a"}
                       THEN [stage |-> 1, section |-> model.activeSection,
                             tab |-> model.activeTab]
                       ELSE IF enteredFrom.stage = 1 /\ k = "esc"
                       THEN [enteredFrom EXCEPT !.stage = 2]
                       ELSE NotEntered
     /\ followed' = followed

KeyEvent(k) == Key(k, MaxTyped)

\* A key of a user who edits the headers and the params.
EditKeyEvent(k) == Key(k, MaxEdit)

\* A key of a user who saves and loads requests.
LoadKeyEvent(k) == Key(k, MaxLoadTyped)

\* The command of request i starts: it builds its request from the model.
BuildRequest(i) ==
  /\ running
  /\ i \in 1..Len(inflight)
  /\ inflight[i].pc = "new"
  /\ inflight' = [inflight EXCEPT ![i] = NewHTTPRequest(model, inflight[i])]
  /\ UNCHANGED <<model, lastEvent, lastCmd, consumed, running, typed, created, enteredFrom,
                 followed>>

\* The command of request i sends what its request holds now.
TransportSend(i) ==
  /\ running
  /\ i \in 1..Len(inflight)
  /\ inflight[i].pc = "built"
  /\ inflight' = [inflight EXCEPT ![i] = SendRequest(model, inflight[i])]
  /\ UNCHANGED <<model, lastEvent, lastCmd, consumed, running, typed, created, enteredFrom,
                 followed>>

\* What the transport may answer.
Responses ==
  {[Body |-> CompactJSON, Status |-> "200 OK", StatusCode |-> "200", Time |-> <<"12ms">>],
   [Body |-> NotJSON, Status |-> "404 Not Found", StatusCode |-> "404", Time |-> <<"7ms">>]}

Resp200 == [Body |-> CompactJSON, Status |-> "200 OK", StatusCode |-> "200", Time |-> <<"12ms">>]

Errors == {[Message |-> <<"timeout">>]}

\* The answer of a server that sends back the URL it was asked for.
EchoOf(f) == [Body |-> f.sent.URL, Status |-> "200 OK", StatusCode |-> "200", Time |-> <<"12ms">>]

\* An answer whose body is taller than the viewport.
RespLong == [Body |-> LongText, Status |-> "200 OK", StatusCode |-> "200", Time |-> <<"12ms">>]

\* The inflight list without its element i.
Without(fl, i) == [j \in 1..(Len(fl) - 1) |-> IF j < i THEN fl[j] ELSE fl[j + 1]]

\* The place of the followed request once request i has left the list.
FollowedWithout(i) ==
  IF followed = i THEN 0 ELSE IF followed > i THEN followed - 1 ELSE followed

\* An observer starts to follow request i, at any time between its dispatch
\* and its event.
Follow(i) ==
  /\ running
  /\ followed = 0
  /\ i \in 1..Len(inflight)
  /\ followed' = i
  /\ UNCHANGED <<model, inflight, lastEvent, lastCmd, consumed, running, typed, created,
                 enteredFrom>>

\* App.Update on the ResponseData of request i.
ResponseArrived(i, data) ==
  /\ running
  /\ i \in 1..Len(inflight)
  /\ inflight[i].pc = "sent"
  /\ inflight' = Without(inflight, i)
  /\ model' = Collect(SetResponseData(model, data), inflight')
  /\ lastEvent' = "msg"
  /\ lastCmd' = "None"
  /\ enteredFrom' = NotEntered
  /\ followed' = FollowedWithout(i)
  /\ UNCHANGED <<consumed, running, typed, created>>

\* App.Update on the ErrorData of request i.
RequestFailed(i, err) ==
  /\ running
  /\ i \in 1..Len(inflight)
  /\ inflight[i].pc = "sent"
  /\ inflight' = Without(inflight, i)
  /\ model' = Collect(SetError(model, err), inflight')
  /\ lastEvent' = "msg"
  /\ lastCmd' = "None"
  /\ enteredFrom' = NotEntered
  /\ followed' = FollowedWithout(i)
  /\ UNCHANGED <<consumed, running, typed, created>>

\* The command of request i returns its message and App.Update folds it in.
Deliver(i) ==
  \/ ResponseArrived(i, Resp200)
  \/ \E err \in Errors : RequestFailed(i, err)

\* The file of saved requests becomes unwritable, or writable again.
DiskChanges ==
  /\ running
  /\ model' = [model EXCEPT !.writable = ~model.writable]
  /\ UNCHANGED <<inflight, lastEvent, lastCmd, consumed, running, typed, created,
                 enteredFrom, followed>>

\* The program starts with no preset file, or with one of the files of Files.
InitWith(files) ==
  /\ \E file \in files : model = NewAppModel(file)
  /\ inflight = <<>>
  /\ lastEvent = "none"
  /\ lastCmd = "None"
  /\ consumed = FALSE
  /\ running = TRUE
  /\ typed = 0
  /\ created = model.file
  /\ enteredFrom = NotEntered
  /\ followed = 0

Init == InitWith({<<>>})

InitFiles == InitWith(Files)

\* Modes, overlays and focus: the keys that change them, and the transport.
Keys == {"a", "esc", "tab", "right", "enter", "ctrl+s", "d", "y"}

\* The user of this specification leaves the method alone.
KeepsMethod(k) ==
  k \in {"left", "h", "right", "l"} =>
    ~(model.activeTab = TabRequest /\ model.activeSection = SectionMethod)

\* The user of this specification types the letter a only, into the URL
\* input and into the name of a saved request.
TypesA(k) ==
  IsRune(k) => /\ model.inputMode => (k = "a" /\ model.activeSection = SectionURL)
               /\ model.isSaving => k = "a"

Next ==
  \/ \E k \in Keys : KeepsMethod(k) /\ TypesA(k) /\ KeyEvent(k)
  \/ \E i \in 1..MaxInflight : BuildRequest(i)
  \/ \E i \in 1..MaxInflight : TransportSend(i)
  \/ \E i \in 1..MaxInflight : ResponseArrived(i, Resp200)
  \/ \E i \in 1..MaxInflight : \E err \in Errors : RequestFailed(i, err)

Spec == Init /\ [][Next]_vars

\* Section navigation.
NavKeys == {"up", "k", "down", "j", "tab", "shift+tab", "1", "2", "3", "4", "5",
            "left", "right", "ctrl+c"}

NextNav == \E k \in NavKeys : KeyEvent(k)

SpecNav == Init /\ [][NextNav]_vars

\* Editing the headers and the params.
EditKeys == {"tab", "a", "=", "enter", "esc", "backspace"}

\* The user of this specification types and presses Enter on the headers and
\* the params sections only.
OnLists(k) ==
  (IsRune(k) \/ k = "enter") => model.activeSection \in {SectionHeaders, SectionParams}

NextEdit == \E k \in EditKeys : OnLists(k) /\ EditKeyEvent(k)

SpecEdit == Init /\ [][NextEdit]_vars

\* Sending: the draft is edited while requests are in flight.
SendKeys == {"tab", "a", "esc", "enter", "backspace"}

NextSend ==
  \/ \E k \in SendKeys : KeyEvent(k)
  \/ \E i \in 1..MaxInflight : BuildRequest(i)
  \/ \E i \in 1..MaxInflight : TransportSend(i)
  \/ \E i \in 1..MaxInflight : \E data \in Responses : ResponseArrived(i, data)
  \/ \E i \in 1..MaxInflight : \E err \in Errors : RequestFailed(i, err)

SpecSend == Init /\ [][NextSend]_vars

\* Saved requests: saving, loading and editing the draft in between.
PresetKeys == {"tab", "right", "ctrl+s", "enter", "backspace", "a", "="}

NextPreset == \E k \in PresetKeys : KeepsMethod(k) /\ EditKeyEvent(k)

SpecPreset == Init /\ [][NextPreset]_vars

\* Saved requests found at start or saved in the run, loaded after the
\* headers of the draft have been edited.
LoadKeys == {"tab", "right", "ctrl+s", "enter", "backspace", "a", "=", "esc"}

\* The user of this specification types "=" only, into the header input and
\* into the name of a saved request, and enters text-edit mode on the headers
\* section only.
TypesEq(k) ==
  IsRune(k) => /\ model.inputMode => (k = "=" /\ model.activeSection = SectionHeaders)
               /\ model.isSaving => k = "="
               /\ Mode(model) = "Navigation" => model.activeSection = SectionHeaders

NextLoad == \E k \in LoadKeys : KeepsMethod(k) /\ TypesEq(k) /\ LoadKeyEvent(k)

SpecLoad == InitFiles /\ [][NextLoad]_vars

\* Saved requests: the save prompt and the delete confirmation, on the list of
\* the file and of the run.
StoreKeys == {"right", "ctrl+s", "=", "enter", "esc", "down", "d", "y", "n"}

\* The user of this specification types "=" only into the name of a saved
\* request.
NamesEq(k) == (IsRune(k) /\ model.isSaving) => k = "="

NextStore == \E k \in StoreKeys : KeepsMethod(k) /\ NamesEq(k) /\ LoadKeyEvent(k)

SpecStore == InitFiles /\ [][NextStore]_vars

\* Sending under a fair transport.  Each command runs in a goroutine of its
\* own: the scheduler runs it, http.Client answers or times out after 30
\* seconds, and the program loop takes the message it returns.
FairKeys == {"2", "a", "esc", "enter"}

NextFair ==
  \/ \E k \in FairKeys : KeepsMethod(k) /\ TypesA(k) /\ KeyEvent(k)
  \/ \E i \in 1..MaxInflight : BuildRequest(i)
  \/ \E i \in 1..MaxInflight : TransportSend(i)
  \/ \E i \in 1..MaxInflight : ResponseArrived(i, Resp200)
  \/ \E i \in 1..MaxInflight : \E err \in Errors : RequestFailed(i, err)
  \/ \E i \in 1..MaxInflight : Follow(i)

SpecFair ==
  /\ Init
  /\ [][NextFair]_vars
  /\ \A i \in 1..MaxInflight :
       WF_vars(BuildRequest(i)) /\ WF_vars(TransportSend(i)) /\ WF_vars(Deliver(i))

\* Quitting: q and ctrl+c in navigation and in text-edit mode, on every
\* section and on every tab.
QuitKeys == {"tab", "4", "a", "esc", "right", "q", "ctrl+c"}

\* The user of this specification types the letter q only.
TypesQ(k) == (IsRune(k) /\ model.inputMode) => k = "q"

NextQuit == \E k \in QuitKeys : KeepsMethod(k) /\ TypesQ(k) /\ KeyEvent(k)

SpecQuit == Init /\ [][NextQuit]_vars

\* Methods and tabs: left and right on every section and tab, with a request
\* sent from the method section and answered.
MethodKeys == {"1", "2", "a", "esc", "enter", "left", "right"}

\* The user of this specification sends one request at a time, and only
\* before the first answer.
SendsAlone(k) == k = "enter" => (inflight = <<>> /\ model.status = <<>>)

NextMethodTab ==
  \/ \E k \in MethodKeys : TypesA(k) /\ SendsAlone(k) /\ KeyEvent(k)
  \/ \E i \in 1..MaxInflight : BuildRequest(i)
  \/ \E i \in 1..MaxInflight : TransportSend(i)
  \/ \E i \in 1..MaxInflight : ResponseArrived(i, Resp200)

SpecMethodTab == Init /\ [][NextMethodTab]_vars

\* A response taller than the viewport, and the keys that scroll.
ScrollKeys == {"2", "a", "esc", "enter", "up", "k", "down", "j"}

NextScroll ==
  \/ \E k \in ScrollKeys : TypesA(k) /\ SendsAlone(k) /\ KeyEvent(k)
  \/ \E i \in 1..MaxInflight : BuildRequest(i)
  \/ \E i \in 1..MaxInflight : TransportSend(i)
  \/ \E i \in 1..MaxInflight : ResponseArrived(i, RespLong)

SpecScroll == Init /\ [][NextScroll]_vars

\* Every mode and overlay, on every tab, with requests in flight and answered.
ModeKeys == {"2", "a", "esc", "enter", "right", "ctrl+s", "d"}

NextModes ==
  \/ \E k \in ModeKeys : TypesA(k) /\ SendsAlone(k) /\ LoadKeyEvent(k)
  \/ \E i \in 1..MaxInflight : BuildRequest(i)
  \/ \E i \in 1..MaxInflight : TransportSend(i)
  \/ \E i \in 1..MaxInflight : ResponseArrived(i, Resp200)
  \/ \E i \in 1..MaxInflight : \E err \in Errors : RequestFailed(i, err)

SpecModes == Init /\ [][NextModes]_vars

\* Requests sent one after the other while the URL grows, answered in any
\* order by a server that sends back the URL.
OrderKeys == {"2", "a", "esc", "enter"}

NextOrder ==
  \/ \E k \in OrderKeys : TypesA(k) /\ LoadKeyEvent(k)
  \/ \E i \in 1..MaxInflight : BuildRequest(i)
  \/ \E i \in 1..MaxInflight : TransportSend(i)
  \/ \E i \in 1..MaxInflight : i <= Len(inflight) /\ ResponseArrived(i, EchoOf(inflight[i]))

SpecOrder == Init /\ [][NextOrder]_vars

\* The method of the draft: cycled both ways, saved, loaded, with a request
\* sent and answered.  The file holds a request with a URL, so a loaded draft
\* can be sent.
PresetURL == [Preset0 EXCEPT !.URL = <<"a">>]

MethodStoreKeys == {"1", "2", "a", "enter", "left", "right", "ctrl+s"}

\* The user of this specification changes the method and opens the save
\* prompt before any name has been typed, and types the letter a into the
\* name only.
SavesOnce(k) ==
  /\ k = "ctrl+s" => typed = 0
  /\ k = "a" => model.isSaving
  /\ (k \in {"left", "right"} /\ model.activeTab = TabRequest
       /\ model.activeSection = SectionMethod) => typed = 0

NextMethodStore ==
  \/ \E k \in MethodStoreKeys : SendsAlone(k) /\ SavesOnce(k) /\ KeyEvent(k)
  \/ \E i \in 1..MaxInflight : BuildRequest(i)
  \/ \E i \in 1..MaxInflight : TransportSend(i)
  \/ \E i \in 1..MaxInflight : ResponseArrived(i, Resp200)
  \/ \E i \in 1..MaxInflight : \E err \in Errors : RequestFailed(i, err)

SpecMethodStore == InitWith({<<>>, <<PresetURL>>}) /\ [][NextMethodStore]_vars

\* Text-edit mode on every section, with "=" typed into the header input.
TextKeys == {"tab", "a", "=", "enter", "esc", "backspace"}

\* The user of this specification types "=" only, into the header input.
TypesEqInHeaders(k) ==
  (IsRune(k) /\ model.inputMode) => (k = "=" /\ model.activeSection = SectionHeaders)

NextText == \E k \in TextKeys : TypesEqInHeaders(k) /\ EditKeyEvent(k)

SpecText == Init /\ [][NextText]_vars

\* Saving and deleting while the file of saved requests may be unwritable.
NextDisk ==
  \/ \E k \in StoreKeys : KeepsMethod(k) /\ NamesEq(k) /\ LoadKeyEvent(k)
  \/ DiskChanges

SpecDisk == InitFiles /\ [][NextDisk]_vars

\* ------------------------------------------------------------------ claims

\* C1: while the save-name prompt or the delete confirmation is open, every
\* key is consumed, returns no command (no Quit, no SendRequest), and leaves
\* the draft, the active section, the active tab and the input-mode flag as
\* they were.
C1_OverlayIsolation ==
  LET AllKeys == Runes \cup {"esc", "enter", "tab", "shift+tab", "up", "down", "left",
                               "right", "backspace", "ctrl+c", "ctrl+s"}
  IN (model.isSaving \/ model.isDeleting) =>
    \A k \in AllKeys :
      LET r == HandleKeyEvent(model, k)
      IN /\ r.consumed
         /\ r.cmd = "None"
         /\ Draft(r.m) = Draft(model)
         /\ r.m.activeSection = model.activeSection
         /\ r.m.activeTab = model.activeTab
         /\ r.m.inputMode = model.inputMode

\* A key has been pressed in the save prompt: it is a character of the name.
C1_Witness ==
  /\ lastEvent = "key"
  /\ consumed
  /\ model.isSaving
  /\ model.saveNameInput.value = <<"a">>

\* C2: at most one of isSaving, isDeleting and inputMode is true.
C2_OneModalFlag ==
  /\ ~(model.isSaving /\ model.isDeleting)
  /\ ~(model.isSaving /\ model.inputMode)
  /\ ~(model.isDeleting /\ model.inputMode)

\* The delete confirmation is open on a saved request, and it is the only
\* flag that is set.
C2_Witness ==
  /\ model.isDeleting
  /\ model.savedRequests # <<>>
  /\ ~model.isSaving
  /\ ~model.inputMode

\* C3: what the transport sends for a request is the draft as it was when
\* Enter was pressed, whatever keys came after that Enter.
C3_SentIsDraftAtEnter ==
  \A i \in 1..Len(inflight) :
    inflight[i].pc = "sent" => inflight[i].sent = inflight[i].atEnter

\* C4: a saved request holds, for as long as it is in the list, the content
\* it was created with, so loading it restores the draft of the save.
C4_PresetKeepsContent ==
  /\ Len(created) = Len(model.savedRequests)
  /\ \A i \in 1..Len(model.savedRequests) :
       Deep(model.heap, model.savedRequests[i]) = created[i]

\* C5 as stated: while a dispatched request has not been folded in, loading
\* is true, also when another request is outstanding.
C5_LoadingWhileOutstanding == inflight # <<>> => model.loading

\* C5: loading is true once a send is dispatched and stays true over every key
\* until the next response or error event, of whichever request, is folded
\* in; that event leaves loading false.
C5_LoadingUntilNextFold ==
  [][/\ (lastEvent' = "key" /\ lastCmd' = "SendRequest") => model'.loading
     /\ (model.loading /\ lastEvent' # "msg") => model'.loading
     /\ (model.loading /\ inflight' = inflight) => model'.loading
     /\ (Len(inflight') < Len(inflight)) => ~model'.loading]_vars

\* An event has been folded in while another request is outstanding.
C5_Witness == lastEvent = "msg" /\ ~model.loading /\ inflight # <<>>

\* C6: the response body and the error message are never both populated; a
\* response event sets the formatted body and clears the error message and
\* loading; an error event sets the message and clears the body and loading,
\* whatever the state before.
C6_ResponseXorError ==
  /\ ~(model.response # <<>> /\ model.errorMsg # <<>>)
  /\ \A data \in Responses :
       LET m2 == SetResponseData(model, data)
       IN m2.response = FormatJSON(data.Body) /\ m2.errorMsg = <<>> /\ ~m2.loading
  /\ \A err \in Errors :
       LET m2 == SetError(model, err)
       IN m2.errorMsg = err.Message /\ m2.response = <<>> /\ ~m2.loading

\* An error has been folded in and is what the response tab shows.
C6_Witness ==
  /\ lastEvent = "msg"
  /\ model.errorMsg = <<"timeout">>
  /\ model.response = <<>>
  /\ model.vpContent = <<"timeout">>

\* C7 as stated: the focused request widgets are those computeFocus gives:
\* none outside text-edit mode, and in text-edit mode the widget of the
\* active section.
C7_FocusIsComputeFocus ==
  LET focused == {w \in Widgets \ {"saveNameInput"} : model[w].focus}
      target == CASE model.activeSection = SectionURL -> {"urlInput"}
                  [] model.activeSection = SectionHeaders -> {"headerInput"}
                  [] model.activeSection = SectionBody -> {"bodyInput"}
                  [] model.activeSection = SectionParams -> {"paramInput"}
                  [] OTHER -> {}
  IN focused = IF Mode(model) = "TextEdit" THEN target ELSE {}

\* C7: no request widget is focused outside text-edit mode; a focused widget
\* is the one of the active section, so two are never focused; in text-edit
\* mode on the request tab the widget of the active section is focused.
C7_FocusFollowsSection ==
  LET focused == {w \in Widgets \ {"saveNameInput"} : model[w].focus}
      target == CASE model.activeSection = SectionURL -> {"urlInput"}
                  [] model.activeSection = SectionHeaders -> {"headerInput"}
                  [] model.activeSection = SectionBody -> {"bodyInput"}
                  [] model.activeSection = SectionParams -> {"paramInput"}
                  [] OTHER -> {}
  IN /\ focused \subseteq target
     /\ Mode(model) # "TextEdit" => focused = {}
     /\ (Mode(model) = "TextEdit" /\ model.activeTab = TabRequest) => focused = target

\* Text-edit mode on another tab than the request tab: the section has a
\* widget and nothing is focused.
C7_Witness ==
  /\ model.inputMode
  /\ model.activeTab # TabRequest
  /\ model.activeSection = SectionURL
  /\ \A w \in Widgets : ~model[w].focus

\* C8: from a navigation state, i or a and then escape give navigation again,
\* on the same section and the same tab, with the four request widgets
\* defocused.
C8_EnterThenEscape ==
  LET back(m) == /\ Mode(m) = "Navigation"
                 /\ \A w \in Widgets \ {"saveNameInput"} : ~m[w].focus
  IN /\ Mode(model) = "Navigation" =>
          \A k \in {"i", "a"} :
            LET m1 == HandleKeyEvent(model, k).m
                m2 == HandleKeyEvent(m1, "esc").m
            IN /\ Mode(m1) = "TextEdit"
               /\ back(m2)
               /\ m2.activeSection = model.activeSection
               /\ m2.activeTab = model.activeTab
     /\ enteredFrom.stage = 2 =>
          /\ back(model)
          /\ model.activeSection = enteredFrom.section
          /\ model.activeTab = enteredFrom.tab

\* The two keys have been pressed on the URL section of the request tab,
\* where the first one focuses the URL input.
C8_Witness ==
  /\ enteredFrom = [stage |-> 2, section |-> SectionURL, tab |-> TabRequest]
  /\ lastEvent = "key"

\* C9: the active section stays in the range of the enum; on the request tab
\* in navigation, up from the first section gives the last, down from the last
\* gives the first, and down then up, or up then down, gives the section back.
C9_SectionCycle ==
  /\ model.activeSection \in 0..(NumSections - 1)
  /\ (Mode(model) = "Navigation" /\ model.activeTab = TabRequest) =>
       \A up \in {"up", "k", "shift+tab"}, down \in {"down", "j", "tab"} :
         LET u == HandleKeyEvent(model, up).m
             d == HandleKeyEvent(model, down).m
         IN /\ u.activeSection \in 0..(NumSections - 1)
            /\ d.activeSection \in 0..(NumSections - 1)
            /\ model.activeSection = SectionMethod => u.activeSection = SectionParams
            /\ model.activeSection = SectionParams => d.activeSection = SectionMethod
            /\ HandleKeyEvent(d, up).m.activeSection = model.activeSection
            /\ HandleKeyEvent(u, down).m.activeSection = model.activeSection

\* A key has taken the section to the last one of the request tab.
C9_Witness ==
  /\ lastEvent = "key"
  /\ consumed
  /\ model.activeTab = TabRequest
  /\ model.activeSection = SectionParams

\* C10: Enter on the headers section, and on the params section, with a
\* buffer that holds "=" appends (text before the first "=", text after it) as
\* the last entry and clears the buffer; with a buffer without "=" it adds
\* nothing and keeps the buffer; with an empty buffer it changes nothing.
C10_EnterAddsEntry ==
  LET r == HandleKeyEvent(model, "enter").m
      onHeaders == model.activeSection = SectionHeaders
      buf == IF onHeaders THEN model.headerInput.value ELSE model.paramInput.value
      buf2 == IF onHeaders THEN r.headerInput.value ELSE r.paramInput.value
      list == Elems(model.heap, IF onHeaders THEN model.headers ELSE model.params)
      list2 == Elems(r.heap, IF onHeaders THEN r.headers ELSE r.params)
      other == Elems(model.heap, IF onHeaders THEN model.params ELSE model.headers)
      other2 == Elems(r.heap, IF onHeaders THEN r.params ELSE r.headers)
      eqs == {i \in 1..Len(buf) : buf[i] = "="}
  IN (/\ model.activeSection \in {SectionHeaders, SectionParams}
      /\ model.activeTab = TabRequest
      /\ Mode(model) \in {"Navigation", "TextEdit"}) =>
       /\ other2 = other
       /\ eqs # {} =>
            \E i \in eqs :
              /\ \A j \in eqs : i <= j
              /\ list2 = Append(list, [Key |-> SubSeq(buf, 1, i - 1),
                                       Value |-> SubSeq(buf, i + 1, Len(buf))])
              /\ buf2 = <<>>
       /\ eqs = {} => list2 = list /\ buf2 = buf
       /\ buf = <<>> => Draft(r) = Draft(model)

\* Enter has added the header of the buffer "==": its key is empty and its
\* value is "=".
C10_Witness ==
  /\ lastEvent = "key"
  /\ model.headerInput.value = <<>>
  /\ Len(Elems(model.heap, model.headers)) = 2
  /\ Elems(model.heap, model.headers)[2] = [Key |-> <<>>, Value |-> <<"=">>]

\* C11: in navigation on the request tab, Backspace on the headers section
\* (the params section) with an empty input buffer removes the last header
\* (param) and keeps the earlier ones; with a non-empty buffer, or on another
\* section, no header and no param is removed.
C11_BackspaceRemovesLast ==
  LET r == HandleKeyEvent(model, "backspace")
      H == Elems(model.heap, model.headers)
      P == Elems(model.heap, model.params)
      H2 == Elems(r.m.heap, r.m.headers)
      P2 == Elems(r.m.heap, r.m.params)
      onH == model.activeSection = SectionHeaders /\ model.headerInput.value = <<>>
      onP == model.activeSection = SectionParams /\ model.paramInput.value = <<>>
  IN (Mode(model) = "Navigation" /\ model.activeTab = TabRequest) =>
       /\ r.consumed
       /\ r.cmd = "None"
       /\ H2 = IF onH /\ H # <<>> THEN SubSeq(H, 1, Len(H) - 1) ELSE H
       /\ P2 = IF onP /\ P # <<>> THEN SubSeq(P, 1, Len(P) - 1) ELSE P

\* Backspace has removed the header added last: the first header is left, in
\* a backing array that has room for two.
C11_Witness ==
  /\ lastEvent = "key"
  /\ Mode(model) = "Navigation"
  /\ model.activeSection = SectionHeaders
  /\ Elems(model.heap, model.headers) = <<ContentType>>
  /\ Cap(model.heap, model.headers) = 2

\* C12: over every event the headers of the draft, and its params, stay as
\* they are, or gain one element at the end, or lose their last element, or
\* become the headers and params of the saved request that is loaded; no
\* element at another position is removed, moved or written over.
C12_ListsChangeAtEnd ==
  [][LET H == Elems(model.heap, model.headers)
         P == Elems(model.heap, model.params)
         H2 == Elems(model'.heap, model'.headers)
         P2 == Elems(model'.heap, model'.params)
         atEnd(L, L2) ==
           \/ L2 = L
           \/ Len(L2) = Len(L) + 1 /\ SubSeq(L2, 1, Len(L)) = L
           \/ L # <<>> /\ L2 = SubSeq(L, 1, Len(L) - 1)
         loaded ==
           /\ Mode(model) = "Navigation"
           /\ model.activeTab = TabSaved
           /\ HasSelectedItem(model)
           /\ H2 = Elems(model.heap, SelectedItem(model).Headers)
           /\ P2 = Elems(model.heap, SelectedItem(model).Params)
     IN (atEnd(H, H2) /\ atEnd(P, P2)) \/ loaded]_vars

\* After a save and the removal of the only header, a header has been added:
\* the append wrote into the backing array the saved request shares, and the
\* draft shows the new header alone.
C12_Witness ==
  /\ lastEvent = "key"
  /\ Len(model.savedRequests) = 1
  /\ model.savedRequests[1].Name = <<"=">>
  /\ model.savedRequests[1].Headers.arr = model.headers.arr
  /\ Elems(model.heap, model.headers) = <<[Key |-> <<>>, Value |-> <<>>]>>

\* C13: in navigation on the request tab, Enter on the method, URL or body
\* section sets loading and returns the one SendRequest command when the URL
\* input is not empty, changing nothing else; with an empty URL it returns no
\* command and changes nothing.
C13_EnterSendsIffURL ==
  LET r == HandleKeyEvent(model, "enter")
  IN (/\ Mode(model) = "Navigation"
      /\ model.activeTab = TabRequest
      /\ model.activeSection \notin {SectionHeaders, SectionParams}) =>
       /\ r.consumed
       /\ IF model.urlInput.value # <<>>
          THEN r.cmd = "SendRequest" /\ r.m = [model EXCEPT !.loading = TRUE]
          ELSE r.cmd = "None" /\ r.m = model

\* Enter has just sent the URL typed before: one request is out, nothing of it
\* built yet, and loading is set.
C13_Witness ==
  /\ lastEvent = "key"
  /\ lastCmd = "SendRequest"
  /\ model.urlInput.value = <<"a">>
  /\ model.activeSection = SectionURL
  /\ model.loading
  /\ Len(inflight) = 1
  /\ inflight[1].pc = "new"

C15_NoKeepsList ==
  LET AllKeys == Runes \cup {"esc", "enter", "tab", "shift+tab", "up", "down", "left",
                               "right", "backspace", "ctrl+c", "ctrl+s"}
  IN Mode(model) = "DeleteConfirm" =>
       \A k \in AllKeys \ {"y", "Y"} :
         LET r == HandleKeyEvent(model, k)
         IN /\ r.consumed
            /\ r.cmd = "None"
            /\ r.m.savedRequests = model.savedRequests
            /\ r.m.file = model.file
            /\ IF ToLower(k) \in {"n", "esc"}
               THEN r.m = [model EXCEPT !.isDeleting = FALSE] /\ Mode(r.m) = "Navigation"
               ELSE r.m = model

\* The confirmation is open on the second of two saved requests, one of the
\* file and one of the run.
C15_Witness ==
  /\ lastEvent = "key"
  /\ Mode(model) = "DeleteConfirm"
  /\ Len(model.savedRequests) = 2
  /\ model.file = [i \in 1..2 |-> Deep(model.heap, model.savedRequests[i])]
  /\ model.savedListIndex = 1

\* C16: in the save prompt, Enter on a name that is not empty appends one
\* saved request with that name and the method, URL, body, headers and params
\* of the draft, whatever names the list holds, and writes the list to the
\* file; Escape leaves the list and the file alone; after either key the name
\* input is empty and blurred and the mode is navigation; every other key is
\* consumed and changes nothing but the name input.
C16_SavePrompt ==
  LET AllKeys == Runes \cup {"esc", "enter", "tab", "shift+tab", "up", "down", "left",
                               "right", "backspace", "ctrl+c", "ctrl+s"}
      name == model.saveNameInput.value
      n == Len(model.savedRequests)
      stored(m) == [i \in 1..Len(m.savedRequests) |-> Deep(m.heap, m.savedRequests[i])]
      closed(m) == /\ m.saveNameInput.value = <<>>
                   /\ ~m.saveNameInput.focus
                   /\ Mode(m) = "Navigation"
  IN Mode(model) = "SaveNamePrompt" =>
       \A k \in AllKeys :
         LET r == HandleKeyEvent(model, k)
         IN /\ r.consumed /\ r.cmd = "None"
            /\ (k = "enter" /\ name # <<>>) =>
                 /\ Len(r.m.savedRequests) = n + 1
                 /\ SubSeq(r.m.savedRequests, 1, n) = model.savedRequests
                 /\ Deep(r.m.heap, r.m.savedRequests[n + 1]) =
                      [Name |-> name, Method |-> model.selectedMethod,
                       URL |-> model.urlInput.value, Body |-> model.bodyInput.value,
                       Headers |-> Elems(model.heap, model.headers),
                       Params |-> Elems(model.heap, model.params)]
                 /\ r.m.file = stored(r.m)
                 /\ Draft(r.m) = Draft(model)
                 /\ closed(r.m)
            /\ k = "esc" =>
                 /\ r.m.savedRequests = model.savedRequests
                 /\ r.m.file = model.file
                 /\ closed(r.m)
            /\ k \notin {"enter", "esc"} =>
                 /\ [r.m EXCEPT !.saveNameInput = model.saveNameInput] = model
                 /\ r.m.saveNameInput.focus

\* Two requests have been saved under the same name: both are in the list and
\* in the file, and the prompt is closed.
C16_Witness ==
  /\ lastEvent = "key"
  /\ Len(model.savedRequests) = 2
  /\ model.savedRequests[1].Name = <<"=">>
  /\ model.savedRequests[2].Name = <<"=">>
  /\ Len(model.file) = 2
  /\ model.saveNameInput.value = <<>>
  /\ ~model.saveNameInput.focus
  /\ Mode(model) = "Navigation"
  /\ model.activeTab = TabRequest

\* C17: in the save prompt with an empty name, Enter creates no saved request:
\* the list and the file are as before, no error message is set and nothing
\* panics, no command is returned, and the prompt closes to navigation with
\* the name input blurred; nothing else changes.
C17_EmptyNameDiscarded ==
  LET r == HandleKeyEvent(model, "enter")
  IN (Mode(model) = "SaveNamePrompt" /\ model.saveNameInput.value = <<>>) =>
       /\ r.consumed /\ r.cmd = "None"
       /\ r.m.savedRequests = model.savedRequests
       /\ r.m.file = model.file
       /\ r.m.errorMsg = model.errorMsg
       /\ ~r.m.panicked
       /\ Mode(r.m) = "Navigation"
       /\ r.m = [model EXCEPT !.isSaving = FALSE, !.saveNameInput = Blur(model.saveNameInput)]

\* The prompt is open again with an empty name, after a request has been
\* saved under a typed name.
C17_Witness ==
  /\ lastEvent = "key"
  /\ Mode(model) = "SaveNamePrompt"
  /\ model.saveNameInput.value = <<>>
  /\ model.saveNameInput.focus
  /\ typed = 1
  /\ Len(model.savedRequests) = 1
  /\ model.savedRequests[1].Name = <<"=">>

\* C18: under a fair transport, a request that has been dispatched is
\* delivered at last: whichever request in flight an observer follows, its
\* message is folded in.  A request leaves the list of requests in flight only
\* by one message of its own, a response or an error, after its transport
\* call, and one message takes one request.  When the message of the last
\* request in flight has been folded in, loading is false.
C18_EveryRequestCompletes ==
  /\ (followed # 0) ~> (followed = 0)
  /\ [][ /\ (Len(inflight') < Len(inflight)) =>
            (/\ \E i \in 1..Len(inflight) :
                  inflight[i].pc = "sent" /\ inflight' = Without(inflight, i)
             /\ lastEvent' = "msg"
             /\ (model'.errorMsg # <<>>) # (model'.response # <<>>))
         /\ (inflight # <<>> /\ inflight' = <<>>) => ~model'.loading]_vars

\* The one request in flight has been answered and its response folded in:
\* nothing is in flight and loading is false.
C18_Witness ==
  /\ lastEvent = "msg"
  /\ inflight = <<>>
  /\ followed = 0
  /\ model.status = <<"200 OK", " (", "200", ")">>
  /\ model.activeTab = TabResponse
  /\ ~model.loading

\* C19: sending has no guard.  In navigation on the request tab, on the
\* method, URL or body section with a URL that is not empty, Enter returns the
\* SendRequest command while loading is already true; each such command adds
\* one request to those in flight and leaves the others as they are, so two
\* can be in flight at once; and under a fair transport each of two or more
\* requests in flight is delivered by a message of its own.
C19_NoSendGuard ==
  /\ []((/\ Mode(model) = "Navigation"
         /\ model.activeTab = TabRequest
         /\ model.activeSection \notin {SectionHeaders, SectionParams}
         /\ model.urlInput.value # <<>>
         /\ model.loading) =>
          (/\ HandleKeyEvent(model, "enter").cmd = "SendRequest"
           /\ HandleKeyEvent(model, "enter").m = model))
  /\ [][(Len(inflight') > Len(inflight)) =>
          (/\ lastEvent' = "key"
           /\ lastCmd' = "SendRequest"
           /\ Len(inflight') = Len(inflight) + 1
           /\ SubSeq(inflight', 1, Len(inflight)) = inflight
           /\ inflight'[Len(inflight')].pc = "new")]_vars
  /\ \A i \in 1..MaxInflight :
       (Len(inflight) > 1 /\ followed = i) ~> (followed = 0 /\ lastEvent = "msg")

\* Enter has sent a second request while the first is on the transport and
\* loading was set; the observer follows the second.
C19_Witness ==
  /\ lastEvent = "key"
  /\ lastCmd = "SendRequest"
  /\ model.loading
  /\ Len(inflight) = 2
  /\ inflight[1].pc = "sent"
  /\ inflight[2].pc = "new"
  /\ followed = 2

\* C20 as stated: in navigation ctrl+c and q return Quit; in text-edit mode
\* they return Quit and are consumed off the body section, and on the body
\* section they return no command, change nothing and are not consumed, so
\* that the components, updated with the key as for every key not consumed,
\* put the q into the body input.
C20_QuitKeysReachBody ==
  \A k \in {"ctrl+c", "q"} :
    LET r == HandleKeyEvent(model, k)
    IN /\ Mode(model) = "Navigation" => r.cmd = "Quit"
       /\ (Mode(model) = "TextEdit" /\ model.activeSection # SectionBody) =>
            (r.cmd = "Quit" /\ r.consumed)
       /\ (Mode(model) = "TextEdit" /\ model.activeSection = SectionBody) =>
            /\ r.cmd = "None" /\ r.m = model /\ ~r.consumed
            /\ UpdateComponents(r.m, "q").bodyInput.value = Append(model.bodyInput.value, "q")

\* C20, amended: the same, and the key not consumed on the body section
\* reaches the body input on the request tab only; on the response and the
\* saved tab it goes to the component of that tab and the body input keeps
\* its value.
C20_QuitKeys ==
  \A k \in {"ctrl+c", "q"} :
    LET r == HandleKeyEvent(model, k)
        c == UpdateComponents(r.m, k)
    IN /\ Mode(model) = "Navigation" => (r.cmd = "Quit" /\ r.consumed /\ r.m = model)
       /\ (Mode(model) = "TextEdit" /\ model.activeSection # SectionBody) =>
            (r.cmd = "Quit" /\ r.consumed /\ r.m = model)
       /\ (Mode(model) = "TextEdit" /\ model.activeSection = SectionBody) =>
            /\ r.cmd = "None" /\ r.m = model /\ ~r.consumed
            /\ IF model.activeTab = TabRequest
               THEN c.bodyInput = TextAreaUpdate(model.bodyInput, k)
                    /\ (k = "q" => c.bodyInput.value = Append(model.bodyInput.value, "q"))
               ELSE c.bodyInput = model.bodyInput

\* A q has been typed into the body in text-edit mode: the key was not
\* consumed, no command was returned and the program runs on.
C20_Witness ==
  /\ lastEvent = "key"
  /\ ~consumed
  /\ lastCmd = "None"
  /\ running
  /\ Mode(model) = "TextEdit"
  /\ model.activeSection = SectionBody
  /\ model.bodyInput.value = <<"q">>

\* C21 as stated: in navigation, left/h and right/l on the method section
\* cycle the method by -1/+1 modulo the number of methods and keep the tab; on
\* another section they cycle the tab by -1/+1 modulo the number of tabs and
\* keep the method.
C21_LeftRightBySection ==
  \A k \in {"left", "h", "right", "l"} :
    LET r == HandleKeyEvent(model, k)
        d == IF k \in {"left", "h"} THEN -1 ELSE 1
        n == Len(MethodNames)
    IN Mode(model) = "Navigation" =>
         IF model.activeSection = SectionMethod
         THEN /\ r.m.selectedMethod = (model.selectedMethod + d + n) % n
              /\ r.m.activeTab = model.activeTab
         ELSE /\ r.m.activeTab = (model.activeTab + d + NumTabs) % NumTabs
              /\ r.m.selectedMethod = model.selectedMethod

\* C21, amended: the method is cycled on the method section of the request
\* tab only; on another section, and on the method section of the response or
\* the saved tab, the keys cycle the tab and keep the method.  The key is
\* consumed, returns no command and changes nothing else.
C21_LeftRight ==
  \A k \in {"left", "h", "right", "l"} :
    LET r == HandleKeyEvent(model, k)
        d == IF k \in {"left", "h"} THEN -1 ELSE 1
        n == Len(MethodNames)
    IN Mode(model) = "Navigation" =>
         /\ r.consumed /\ r.cmd = "None"
         /\ IF model.activeTab = TabRequest /\ model.activeSection = SectionMethod
            THEN r.m = [model EXCEPT !.selectedMethod = (model.selectedMethod + d + n) % n]
            ELSE r.m = [model EXCEPT !.activeTab = (model.activeTab + d + NumTabs) % NumTabs]

\* A request sent from the method section has been answered: the response tab
\* is shown with the method section still active, and the method is the last
\* of the list, one step left of the first.
C21_Witness ==
  /\ lastEvent = "msg"
  /\ Mode(model) = "Navigation"
  /\ model.activeTab = TabResponse
  /\ model.activeSection = SectionMethod
  /\ model.selectedMethod = Len(MethodNames) - 1

\* C22: in navigation, the section keys (up/k, down/j, tab, shift+tab and the
\* digits) change the active section on the request tab; on the response and
\* the saved tab they leave the active section, the mode and the focus of
\* every input as they were.
C22_SectionKeysOnRequestTab ==
  \A k \in {"up", "k", "down", "j", "tab", "shift+tab", "1", "2", "3", "4", "5"} :
    LET r == HandleKeyEvent(model, k)
        target == IF k \in {"1", "2", "3", "4", "5"} THEN DigitSection(k)
                  ELSE IF k \in {"down", "j", "tab"}
                  THEN (model.activeSection + 1) % NumSections
                  ELSE (model.activeSection + NumSections - 1) % NumSections
    IN Mode(model) = "Navigation" =>
         IF model.activeTab = TabRequest
         THEN r.m.activeSection = target
         ELSE /\ r.m.activeSection = model.activeSection
              /\ Mode(r.m) = Mode(model)
              /\ \A w \in Widgets : r.m[w].focus = model[w].focus
              /\ r.m.activeTab = model.activeTab

\* The saved tab is shown with the body section active, after a key.
C22_Witness ==
  /\ lastEvent = "key"
  /\ consumed
  /\ Mode(model) = "Navigation"
  /\ model.activeTab = TabSaved
  /\ model.activeSection = SectionBody

\* C23: in navigation, ctrl+s is consumed and returns no command; on the
\* request tab it sets isSaving and focuses the name input and changes nothing
\* else, on the other tabs it changes nothing.  d is consumed and returns no
\* command; on the saved tab it sets isDeleting and changes nothing else, on
\* the other tabs it changes nothing.
C23_OverlayKeysByTab ==
  LET s == HandleKeyEvent(model, "ctrl+s")
      d == HandleKeyEvent(model, "d")
  IN Mode(model) = "Navigation" =>
       /\ s.consumed /\ s.cmd = "None"
       /\ d.consumed /\ d.cmd = "None"
       /\ IF model.activeTab = TabRequest
          THEN /\ s.m = [model EXCEPT !.isSaving = TRUE,
                                      !.saveNameInput = Focus(model.saveNameInput)]
               /\ Mode(s.m) = "SaveNamePrompt"
               /\ s.m.saveNameInput.focus
          ELSE s.m = model
       /\ IF model.activeTab = TabSaved
          THEN d.m = [model EXCEPT !.isDeleting = TRUE] /\ Mode(d.m) = "DeleteConfirm"
          ELSE d.m = model

\* ctrl+s has opened the prompt on the request tab, over the request of the
\* file: the name input is focused and nothing has been typed.
C23_Witness ==
  /\ lastEvent = "key"
  /\ consumed
  /\ model.isSaving
  /\ ~model.isDeleting
  /\ model.saveNameInput.focus
  /\ model.activeTab = TabRequest
  /\ typed = 0
  /\ Len(model.savedRequests) = 1

\* C24: in text-edit mode, Enter on the headers and the params section is
\* consumed and does what the Enter action does; on every other section it is
\* not consumed, returns no command and changes nothing.  Every key other
\* than Escape, ctrl+c, q and that Enter is not consumed, returns no command
\* and changes nothing in the handler; forwarded to the components it changes
\* no mode, section, tab, header or param.
C24_TextEditReservedKeys ==
  LET AllKeys == Runes \cup {"esc", "enter", "tab", "shift+tab", "up", "down", "left",
                               "right", "backspace", "ctrl+c", "ctrl+s"}
      onList == model.activeSection \in {SectionHeaders, SectionParams}
  IN Mode(model) = "TextEdit" =>
       \A k \in AllKeys \ {"esc", "ctrl+c", "q"} :
         LET r == HandleKeyEvent(model, k)
             c == UpdateComponents(r.m, k)
         IN IF k = "enter" /\ onList
            THEN /\ r.consumed
                 /\ r.m = handleEnterOnRequestTab(model).m
                 /\ r.cmd = "None"
            ELSE /\ ~r.consumed
                 /\ r.cmd = "None"
                 /\ r.m = model
                 /\ Mode(c) = "TextEdit"
                 /\ c.activeSection = model.activeSection
                 /\ c.activeTab = model.activeTab
                 /\ c.headers = model.headers /\ c.params = model.params
                 /\ c.heap = model.heap

\* Enter in text-edit mode has turned the "=" of the header input into a
\* header; the mode is still text-edit.
C24_Witness ==
  /\ lastEvent = "key"
  /\ consumed
  /\ Mode(model) = "TextEdit"
  /\ model.activeSection = SectionHeaders
  /\ model.headerInput.value = <<>>
  /\ Elems(model.heap, model.headers) = <<ContentType, [Key |-> <<>>, Value |-> <<>>]>>

\* C25: in navigation a key is consumed exactly when it is a key of the
\* navigation table: ctrl+c, q, i, a, ctrl+s, left, h, right, l, up, k, down,
\* j, tab, shift+tab, the digits, d, enter, backspace.  Every other key is
\* not consumed, returns no command and changes nothing.
C25_NavigationTable ==
  LET AllKeys == Runes \cup {"esc", "enter", "tab", "shift+tab", "up", "down", "left",
                               "right", "backspace", "ctrl+c", "ctrl+s"}
      Table == {"ctrl+c", "q", "i", "a", "ctrl+s", "left", "h", "right", "l", "up", "k",
                "down", "j", "tab", "shift+tab", "1", "2", "3", "4", "5", "d", "enter",
                "backspace"}
  IN Mode(model) = "Navigation" =>
       \A k \in AllKeys :
         LET r == HandleKeyEvent(model, k)
         IN /\ r.consumed <=> k \in Table
            /\ k \notin Table => (r.cmd = "None" /\ r.m = model)

\* A key outside the table has been pressed in navigation on the saved tab: it
\* was not consumed and no command came back.
C25_Witness ==
  /\ lastEvent = "key"
  /\ ~consumed
  /\ lastCmd = "None"
  /\ Mode(model) = "Navigation"
  /\ model.activeTab = TabSaved
  /\ running

\* C26: Enter in navigation on the saved tab, with a saved request under the
\* cursor, makes the method, URL, body, headers and params of the draft those
\* of that saved request and leaves the list and the file as they were; with
\* no saved request under the cursor it changes nothing.
C26_LoadReplacesDraft ==
  LET r == HandleKeyEvent(model, "enter")
  IN (Mode(model) = "Navigation" /\ model.activeTab = TabSaved) =>
       /\ r.consumed /\ r.cmd = "None"
       /\ IF HasSelectedItem(model)
          THEN LET item == SelectedItem(model)
               IN /\ Draft(r.m) = [Method |-> MethodNames[item.Method + 1],
                                    URL |-> item.URL, Body |-> item.Body,
                                    Headers |-> Elems(model.heap, item.Headers),
                                    Params |-> Elems(model.heap, item.Params)]
                  /\ r.m.savedRequests = model.savedRequests
                  /\ r.m.file = model.file
                  /\ r.m.heap = model.heap
          ELSE r.m = model

\* The saved request of the file has been loaded: the draft has its method
\* and its body, which nobody typed, and shows its headers.
C26_Witness ==
  /\ lastEvent = "key"
  /\ consumed
  /\ model.activeTab = TabRequest
  /\ model.savedRequests # <<>>
  /\ model.savedRequests[1].Name = <<"p">>
  /\ model.bodyInput.value = <<"b">>
  /\ model.selectedMethod = 1
  /\ model.headers = model.savedRequests[1].Headers

\* C27: the list last written to the file equals the list of saved requests
\* in memory, element for element, contents included.
C27_StoreEqualsList ==
  model.file = [i \in 1..Len(model.savedRequests) |->
                  Deep(model.heap, model.savedRequests[i])]

\* C28: when the file cannot be written, a confirmed save (Enter in the save
\* prompt on a name that is not empty) and a confirmed delete (y in the
\* confirmation over a saved request under the cursor) are consumed, return
\* no command, set no error, do not panic, change the list in memory as they
\* do otherwise, and close the overlay to navigation.
C28_WriteFailureIsDropped ==
  LET s == HandleKeyEvent(model, "enter")
      d == HandleKeyEvent(model, "y")
  IN ~model.writable =>
       /\ (Mode(model) = "SaveNamePrompt" /\ model.saveNameInput.value # <<>>) =>
            /\ s.consumed /\ s.cmd = "None"
            /\ ~s.m.panicked
            /\ s.m.errorMsg = model.errorMsg
            /\ Len(s.m.savedRequests) = Len(model.savedRequests) + 1
            /\ s.m.file = model.file
            /\ Mode(s.m) = "Navigation"
       /\ (Mode(model) = "DeleteConfirm" /\ HasSelectedItem(model)) =>
            /\ d.consumed /\ d.cmd = "None"
            /\ ~d.m.panicked
            /\ d.m.errorMsg = model.errorMsg
            /\ Len(d.m.savedRequests) = Len(model.savedRequests) - 1
            /\ d.m.file = model.file
            /\ Mode(d.m) = "Navigation"

\* A request has been saved while the file could not be written: it is in
\* the list, the file is still absent, the prompt is closed and the program
\* runs.
C28_Witness ==
  /\ lastEvent = "key"
  /\ consumed
  /\ running
  /\ ~model.writable
  /\ Len(model.savedRequests) = 1
  /\ model.savedRequests[1].Name = <<"=">>
  /\ model.file = <<>>
  /\ Mode(model) = "Navigation"
  /\ model.saveNameInput.value = <<>>

\* C29 as stated: in text-edit mode on the request tab, Backspace on the
\* headers (params) section with an empty input removes the last header
\* (param); with an input that is not empty it is not consumed and removes
\* none.
C29_BackspaceReserved ==
  LET r == HandleKeyEvent(model, "backspace")
      H == Elems(model.heap, model.headers)
      P == Elems(model.heap, model.params)
      H2 == Elems(r.m.heap, r.m.headers)
      P2 == Elems(r.m.heap, r.m.params)
  IN (Mode(model) = "TextEdit" /\ model.activeTab = TabRequest) =>
       /\ (model.activeSection = SectionHeaders /\ H # <<>>) =>
            IF model.headerInput.value = <<>>
            THEN H2 = SubSeq(H, 1, Len(H) - 1)
            ELSE ~r.consumed /\ H2 = H
       /\ (model.activeSection = SectionParams /\ P # <<>>) =>
            IF model.paramInput.value = <<>>
            THEN P2 = SubSeq(P, 1, Len(P) - 1)
            ELSE ~r.consumed /\ P2 = P

\* C29, amended: in text-edit mode Backspace is not a reserved key.  On every
\* section and with every input, empty or not, it is not consumed, returns no
\* command and changes nothing; forwarded to the components it removes no
\* header and no param, and on the request tab it deletes the last character
\* of the input of the active section.
C29_BackspaceForwarded ==
  LET r == HandleKeyEvent(model, "backspace")
      c == UpdateComponents(r.m, "backspace")
      cut(w) == [w EXCEPT !.value = IF w.value = <<>> THEN <<>>
                                     ELSE SubSeq(w.value, 1, Len(w.value) - 1)]
  IN Mode(model) = "TextEdit" =>
       /\ ~r.consumed /\ r.cmd = "None" /\ r.m = model
       /\ c.headers = model.headers /\ c.params = model.params /\ c.heap = model.heap
       /\ (model.activeTab = TabRequest /\ model.activeSection = SectionHeaders) =>
            c = [model EXCEPT !.headerInput = cut(model.headerInput)]
       /\ (model.activeTab = TabRequest /\ model.activeSection = SectionParams) =>
            c = [model EXCEPT !.paramInput = cut(model.paramInput)]

\* In text-edit mode on the headers the "=" that was typed is gone from the
\* input and no header was added or removed: the last key, not consumed, left
\* the header of the start in its array.
C29_Witness ==
  /\ lastEvent = "key"
  /\ ~consumed
  /\ typed = 1
  /\ Mode(model) = "TextEdit"
  /\ model.activeSection = SectionHeaders
  /\ model.headerInput.value = <<>>
  /\ Elems(model.heap, model.headers) = <<ContentType>>
  /\ Cap(model.heap, model.headers) = 1

\* C30: in navigation mode on the response tab (the saved tab), each up/k or
\* down/j key moves the viewport (the cursor of the list) by exactly one line
\* where there is a line to move to, and leaves the active section unchanged.
C30_ScrollsByOneLine ==
  \A k \in {"up", "k", "down", "j"} :
    LET r == HandleKeyEvent(model, k)
        after == IF r.consumed THEN r.m ELSE UpdateComponents(r.m, k)
        step == IF k \in {"down", "j"} THEN 1 ELSE -1
        top == maxYOffset(model.vpContent)
        last == Len(model.savedRequests) - 1
    IN (Mode(model) = "Navigation" /\ model.activeTab # TabRequest) =>
         /\ after.activeSection = model.activeSection
         /\ (model.activeTab = TabResponse /\ model.vpOffset + step \in 0..top) =>
              after.vpOffset = model.vpOffset + step
         /\ (model.activeTab = TabSaved /\ model.savedListIndex + step \in 0..last) =>
              after.savedListIndex = model.savedListIndex + step

\* C31: from every state of a running program, in every mode and with or
\* without a request in flight, one Escape key leaves the mode Navigation, no
\* overlay open, no request widget and no name input focused, and the saved
\* requests and the file as they were.
C31_EscapeLeadsToNavigation ==
  LET r == HandleKeyEvent(model, "esc")
      after == IF r.consumed THEN r.m ELSE UpdateComponents(r.m, "esc")
  IN running =>
       /\ Mode(after) = "Navigation"
       /\ ~after.isSaving /\ ~after.isDeleting /\ ~after.inputMode
       /\ \A w \in Widgets : ~after[w].focus
       /\ after.savedRequests = model.savedRequests
       /\ after.file = model.file
       /\ ~after.panicked
       /\ r.cmd = "None"

\* The name typed into the save prompt is gone and nothing was saved: the
\* prompt was closed by Escape, with a request in flight.
C31_Witness ==
  /\ lastEvent = "key"
  /\ consumed
  /\ typed = 2
  /\ Mode(model) = "Navigation"
  /\ model.urlInput.value = <<"a">>
  /\ model.saveNameInput = NewInput
  /\ model.savedRequests = <<>>
  /\ inflight # <<>>

\* C32: in every state of a running program the delete confirmation is open
\* only on the saved tab and the save prompt is open only on the request tab,
\* also after a response or an error has arrived with an overlay open.
C32_OverlaysOnTheirTab ==
  running =>
    /\ model.isDeleting => model.activeTab = TabSaved
    /\ model.isSaving => model.activeTab = TabRequest

\* C33: whenever the delete confirmation is open the list of saved requests
\* is not empty and has a request under its cursor, and d pressed in
\* navigation on the saved tab with an empty list does not open it.
C33_ConfirmationHasItem ==
  LET r == HandleKeyEvent(model, "d")
  IN running =>
       /\ model.isDeleting => (model.savedRequests # <<>> /\ HasSelectedItem(model))
       /\ (Mode(model) = "Navigation" /\ model.activeTab = TabSaved
            /\ model.savedRequests = <<>>) => ~r.m.isDeleting

\* C34: once every request that was sent has completed, the view shows the
\* result of the request that was sent last, whatever the order of the
\* answers.  The URL only grows here and every answer carries the URL of its
\* request: when the one request still in flight has a shorter URL than the
\* answer on view, it was sent before the request of that answer, and its
\* answer must leave the view as it is.
C34_LastSentIsShown ==
  \A i \in 1..Len(inflight) :
    LET f == inflight[i]
        after == SetResponseData(model, EchoOf(f))
    IN (running /\ Len(inflight) = 1 /\ f.pc = "sent"
        /\ model.errorMsg = <<>> /\ Len(f.sent.URL) < Len(model.response)) =>
         /\ after.response = model.response
         /\ after.vpContent = model.vpContent

\* C35: in every state of a running program the request inputs are focused
\* as updateFocus would leave them: the input of the active section when
\* input mode is on and the request tab is active, and none otherwise; also
\* after a response, an error or a load has changed the tab.
C35_FocusFollowsState ==
  LET RequestWidgets == {"urlInput", "bodyInput", "paramInput", "headerInput"}
  IN running =>
       /\ \A w \in RequestWidgets : model[w].focus = updateFocus(model)[w].focus
       /\ (\E w \in RequestWidgets : model[w].focus) =>
            (model.inputMode /\ model.activeTab = TabRequest)

\* C36: after every sequence of keys, responses, errors, saves and loads, from
\* an empty or a valid file, selectedMethod is an index of the table of the
\* method names and activeTab is one of the three tabs; so is the method of
\* every saved request, in the list and in the file.
C36_MethodAndTabInRange ==
  LET ValidMethod(x) == x \in 0..(Len(MethodNames) - 1)
  IN running =>
       /\ ValidMethod(model.selectedMethod)
       /\ GetCurrentMethod(model) \in {MethodNames[i] : i \in 1..Len(MethodNames)}
       /\ model.activeTab \in {TabRequest, TabResponse, TabSaved}
       /\ \A i \in 1..Len(model.savedRequests) : ValidMethod(model.savedRequests[i].Method)
       /\ \A i \in 1..Len(model.file) : ValidMethod(model.file[i].Method)

\* The method went from GET back to OPTIONS, was saved with the draft, and
\* is the method of the draft on the request tab after an answer has arrived.
C36_Witness ==
  /\ running
  /\ model.selectedMethod = Len(MethodNames) - 1
  /\ \E i \in 1..Len(model.savedRequests) :
        model.savedRequests[i].Method = Len(MethodNames) - 1
  /\ model.status # <<>>
  /\ model.activeTab = TabRequest

C38_AppendedKeysNotEmpty ==
  LET r == HandleKeyEvent(model, "enter")
      H == Elems(model.heap, model.headers)
      P == Elems(model.heap, model.params)
      onRequest == running /\ Mode(model) \in {"Navigation", "TextEdit"}
                   /\ model.activeTab = TabRequest
  IN /\ running => \A i \in 1..Len(H) : H[i].Key # <<>>
     /\ running => \A i \in 1..Len(P) : P[i].Key # <<>>
     /\ (onRequest /\ model.activeSection = SectionHeaders
         /\ IndexEq(model.headerInput.value) = 1) =>
          Elems(r.m.heap, r.m.headers) = H
     /\ (onRequest /\ model.activeSection = SectionParams
         /\ IndexEq(model.paramInput.value) = 1) =>
          Elems(r.m.heap, r.m.params) = P

====
